---- MODULE Spec2Model ----
(***************************************************************************)
(* Order lifecycle of the multi-tenant restaurant ordering platform:       *)
(* session cart, order placement, the order status handlers of the         *)
(* orders, cashier, admin_panel and system_admin applications, table       *)
(* occupancy, product stock and the websocket groups.                      *)
(*                                                                         *)
(* Money is counted in units of 0.0001 of the currency (Unit), so that a   *)
(* DecimalField of two places holds multiples of 100 and a promotional     *)
(* price of whole percents is exact.                                       *)
(***************************************************************************)
EXTENDS Integers, Sequences, FiniteSets, TLC

VARIABLES
    orders,              \* the Order table: row id = index; each row holds its OrderItem rows
    available_in_stock,  \* Product.available_in_stock
    is_available,        \* TableInfo.is_available
    session,             \* request.session of each ordering user
    last,                \* the last request handled, its response and the events it published
    groups,              \* channel layer: the channels of each group
    inbox,               \* channel layer: the messages waiting on each channel
    connected,           \* the websocket connections that are accepted and open
    delivered,           \* the messages each consumer forwarded to its websocket
    consumers,           \* the consumer instance of each channel: its user and its group
    owed,                \* history: the messages published on a consumer's group while it was open
    txn,                 \* the place_order requests in flight: position and uncommitted writes
    channel_up,          \* whether the channel layer's backend (Redis) answers
    product_price,       \* Product.price
    promotion_active,    \* whether the product's happy hour promotion applies now
    req,                 \* the status requests in flight: the Order instance each has read
    payments             \* the Payment table of the cashier: row id = index

db == <<orders, available_in_stock, is_available, payments>>
bus == <<groups, inbox, connected, delivered, consumers, owed, channel_up>>
menu == <<product_price, promotion_active>>
vars == <<orders, available_in_stock, is_available, session, last, groups, inbox,
          connected, delivered, consumers, owed, txn, channel_up, product_price,
          promotion_active, req, payments>>

None == "none"

(***************************************************************************)
(* Bounds of the model.                                                    *)
(***************************************************************************)
MaxOrders == 1     \* orders placed in the lifecycle specifications
MaxPlaced == 2     \* orders placed in the placement specifications
MaxQty == 2        \* quantity of one add_to_cart request
MaxStock == 2      \* stock a cancellation may restore to
MaxPayments == 1   \* payments the cashier takes

(***************************************************************************)
(* The fixture: two restaurants (owners), their staff, tables, products.   *)
(***************************************************************************)
Owners == {"ownerA", "ownerB"}

Users == {"admin", "ownerA", "ownerB", "kitchenA", "kitchenB", "barA",
          "cashierA", "careA", "cust1", "cust2"}

role(u) ==
    CASE u = "admin" -> "administrator"
      [] u \in Owners -> "owner"
      [] u \in {"kitchenA", "kitchenB"} -> "kitchen"
      [] u = "barA" -> "bar"
      [] u = "cashierA" -> "cashier"
      [] u = "careA" -> "customer_care"
      [] OTHER -> "customer"

\* User.owner: staff belong to an owner; cust1 is a universal customer
\* (registered through a QR code, owner = None), cust2 a customer of the old
\* system, tied to ownerA.
user_owner(u) ==
    CASE u \in {"kitchenA", "barA", "cashierA", "careA", "cust2"} -> "ownerA"
      [] u = "kitchenB" -> "ownerB"
      [] OTHER -> None

is_administrator(u) == role(u) = "administrator"
is_owner(u) == role(u) = "owner"
is_customer_care(u) == role(u) = "customer_care"
is_kitchen_staff(u) == role(u) = "kitchen"
is_bar_staff(u) == role(u) = "bar"
is_cashier(u) == role(u) = "cashier"
is_customer(u) == role(u) = "customer"

\* a faulty get_owner_filter: the assigned owner is looked at before the
\* owner role
get_owner_filter_assigned_first(user) ==
    IF user.role = "administrator" THEN None
    ELSE IF user.owner # None THEN user.owner
    ELSE IF user.role = "owner" THEN user.username
    ELSE "denied"

\* accounts.get_owner_filter, of a User row: None for an administrator, the
\* owner itself, the assigned owner, or PermissionDenied ("denied")
resolve_owner_filter(user) ==
    IF user.role = "administrator" THEN None
    ELSE IF user.role = "owner" THEN user.username
    ELSE IF user.owner # None THEN user.owner
    ELSE "denied"

\* get_owner_filter(request.user) for the users of the fixture
get_owner_filter(u) ==
    resolve_owner_filter([username |-> u, role |-> role(u), owner |-> user_owner(u)])

Tables == {"tA1", "tA2", "tB1"}
table_owner(t) == IF t = "tB1" THEN "ownerB" ELSE "ownerA"
tbl_no(t) == IF t = "tA2" THEN "2" ELSE "1"

Products == {"pA", "pB"}
\* Product.owner (main_category.owner): both products are on the menu of
\* restaurant A
product_owner(p) == "ownerA"
station(p) == IF p = "pB" THEN "bar" ELSE "kitchen"

Unit == 10000
\* Product.price, and the price the products start with
InitialPrice(p) == IF p = "pB" THEN 8 * Unit ELSE 5 * Unit
price(p) == product_price[p]
\* HappyHourPromotion.discount_percentage of the one promotion, on product pB
DiscountPercentage == 10
\* the promotion is on product pB; it runs when the model starts
Promoted == {"pB"}
has_active_promotion(p) == promotion_active[p]
InitialStock(p) == IF p = "pA" THEN 2 ELSE 1

Max2(a, b) == IF a >= b THEN a ELSE b

\* Product.get_current_price
get_current_price(p) ==
    IF has_active_promotion(p)
    THEN Max2(price(p) - (price(p) * DiscountPercentage) \div 100, Unit \div 100)
    ELSE price(p)

\* User.tax_rate of the owners (the default, 0.0800)
tax_rate == 800

\* DecimalField(decimal_places=2): quantize to 0.01, ties to even
Cent == Unit \div 100
quantize(x) ==
    LET q == x \div Cent
        r == x % Cent
    IN  IF 2 * r > Cent \/ (2 * r = Cent /\ q % 2 = 1) THEN (q + 1) * Cent ELSE q * Cent

SessionUsers == {"cust1", "cust2"}
\* the status requests that may be in flight at the same time
Requests == {"r1", "r2"}

ActiveStatuses == {"pending", "confirmed", "preparing", "ready", "served"}
NonOccupying == {"cancelled", "customer_refused", "kitchen_error", "quality_issue", "wasted"}
STATUS_CHOICES == ActiveStatuses \cup NonOccupying

OrderIds == 1 .. MaxPlaced
Exists(o) == o \in 1 .. Len(orders)

\* Order.is_table_occupying
is_table_occupying(ord) ==
    ord.status \notin NonOccupying /\ ord.payment_status # "paid"

\* the response to a request that published nothing
Response(op, result) == [op |-> op, result |-> result, events |-> <<>>]

\* the response to a request that published events, in the order of its group_send calls
Published(op, result, events) == [op |-> op, result |-> result, events |-> events]

(***************************************************************************)
(* The channel layer.  A connection is a consumer instance with its        *)
(* channel; group_send puts the message on the channel of every member of  *)
(* the group.                                                              *)
(***************************************************************************)
Conns == {"c1", "c2"}

restaurant_group(owner_id) == <<"restaurant", owner_id>>
order_group(order_id) == <<"order", order_id>>
Groups == {restaurant_group(r) : r \in Owners \cup {None}}
              \cup {order_group(o) : o \in OrderIds}

Event(group, type, order_id) == [group |-> group, type |-> type, order_id |-> order_id]

\* the message of update_order_status: the fields of the order are the value
\* of its key 'message'
StatusEvent(group, order_id) ==
    [group |-> group, type |-> "order_status_update", message |-> [order_id |-> order_id]]

RECURSIVE SelectFor(_, _)
SelectFor(events, members) ==
    IF events = <<>> THEN <<>>
    ELSE IF Head(events).group \in members
         THEN <<Head(events)>> \o SelectFor(Tail(events), members)
         ELSE SelectFor(Tail(events), members)

GroupsOf(c) == {g \in Groups : c \in groups[g]}

\* the group a consumer instance has stored: restaurant_group_name of a
\* RestaurantConsumer, order_group_name of an OrderConsumer
group_name(consumer) ==
    IF "order_group_name" \in DOMAIN consumer THEN consumer.order_group_name
    ELSE consumer.restaurant_group_name

\* channel_layer.group_send, for the events of one request in order
group_send(events) ==
    /\ inbox' = [c \in Conns |-> inbox[c] \o SelectFor(events, GroupsOf(c))]
    /\ owed' = [c \in Conns |->
                  IF c \in connected
                  THEN owed[c] \o SelectFor(events, {group_name(consumers[c])})
                  ELSE owed[c]]
    /\ UNCHANGED <<groups, connected, delivered, consumers, channel_up>>

\* a channel without consumer yet, and a consumer that joined no group
NoGroup == <<>>
NoConsumer == [user |-> None, restaurant_group_name |-> NoGroup]

\* RestaurantConsumer.check_restaurant_access
check_restaurant_access(u, owner_id) ==
    /\ owner_id \in Owners
    /\ \/ is_administrator(u)
       \/ is_owner(u) /\ u = owner_id
       \/ user_owner(u) # None /\ user_owner(u) = owner_id

\* RestaurantConsumer.connect, of a new consumer with the fresh channel c for
\* the websocket of user u at /ws/restaurant/<owner_id>/; u = None is the
\* AnonymousUser of a websocket without a session
connect(c, u, owner_id) ==
    /\ consumers[c] = NoConsumer
    /\ IF u = None
       THEN /\ last' = Response("connect", "close_4001")
            /\ UNCHANGED <<groups, connected, consumers>>
       ELSE IF ~(is_owner(u) \/ is_kitchen_staff(u) \/ is_customer_care(u) \/ is_cashier(u))
          \/ ~check_restaurant_access(u, owner_id)
       THEN /\ consumers' = [consumers EXCEPT ![c] =
                                [user |-> u, restaurant_group_name |-> NoGroup]]
            /\ last' = Response("connect", "close_4003")
            /\ UNCHANGED <<groups, connected>>
       ELSE /\ consumers' = [consumers EXCEPT ![c] =
                                [user |-> u,
                                 restaurant_group_name |-> restaurant_group(owner_id)]]
            /\ groups' = [groups EXCEPT ![restaurant_group(owner_id)] = @ \cup {c}]
            /\ connected' = connected \cup {c}
            /\ last' = Response("connect", "accept")
    /\ UNCHANGED <<db, session, inbox, delivered, owed, channel_up, txn, menu, req>>

\* RestaurantConsumer.disconnect: the websocket of channel c closes
disconnect(c) ==
    /\ c \in connected
    /\ connected' = connected \ {c}
    /\ groups' = [groups EXCEPT ![consumers[c].restaurant_group_name] = @ \ {c}]
    /\ UNCHANGED <<db, session, last, inbox, delivered, consumers, owed, channel_up, txn,
                   menu, req>>

\* a faulty receive: the message is forwarded and stays on the channel
receive_again(c) ==
    /\ c \in connected
    /\ inbox[c] # <<>>
    /\ Head(inbox[c]).type \in {"new_order", "order_cancelled"}
    /\ delivered' = [delivered EXCEPT ![c] = Append(@, Head(inbox[c]))]
    /\ UNCHANGED <<db, session, last, groups, connected, inbox, consumers, owed,
                   channel_up, txn, menu, req>>

\* the consumer of channel c takes the next message of its channel and its
\* handler (RestaurantConsumer.new_order, order_cancelled) sends it to the
\* websocket
receive(c) ==
    /\ c \in connected
    /\ inbox[c] # <<>>
    /\ Head(inbox[c]).type \in {"new_order", "order_cancelled"}
    /\ delivered' = [delivered EXCEPT ![c] = Append(@, Head(inbox[c]))]
    /\ inbox' = [inbox EXCEPT ![c] = Tail(@)]
    /\ UNCHANGED <<db, session, last, groups, connected, consumers, owed, channel_up,
                   txn, menu, req>>

\* the consumer of channel c takes a message for which RestaurantConsumer
\* has no handler method: the dispatch raises, the consumer ends and its
\* websocket is closed; disconnect() does not run, the channel stays in the
\* group
receive_unhandled(c) ==
    /\ c \in connected
    /\ "restaurant_group_name" \in DOMAIN consumers[c]
    /\ inbox[c] # <<>>
    /\ Head(inbox[c]).type \notin {"new_order", "order_cancelled"}
    /\ inbox' = [inbox EXCEPT ![c] = Tail(@)]
    /\ connected' = connected \ {c}
    /\ UNCHANGED <<db, session, last, groups, delivered, consumers, owed, channel_up,
                   txn, menu, req>>

\* OrderConsumer.check_order_permission
check_order_permission(u, order_id) ==
    /\ Exists(order_id)
    /\ \/ orders[order_id].ordered_by = u
       \/ user_owner(u) # None
             /\ table_owner(orders[order_id].table_info) = user_owner(u)
       \/ is_owner(u) /\ table_owner(orders[order_id].table_info) = u
       \/ is_administrator(u)

\* OrderConsumer.connect, of a new consumer with the fresh channel c for the
\* websocket of user u at /ws/order/<order_id>/; the current status is sent
\* to the websocket
order_connect(c, u, order_id) ==
    /\ consumers[c] = NoConsumer
    /\ IF ~check_order_permission(u, order_id)
       THEN /\ consumers' = [consumers EXCEPT ![c] =
                                [user |-> u, order_group_name |-> order_group(order_id)]]
            /\ last' = Response("order_connect", "close_4003")
            /\ UNCHANGED <<groups, connected, delivered>>
       ELSE /\ consumers' = [consumers EXCEPT ![c] =
                                [user |-> u, order_group_name |-> order_group(order_id)]]
            /\ groups' = [groups EXCEPT ![order_group(order_id)] = @ \cup {c}]
            /\ connected' = connected \cup {c}
            /\ delivered' = [delivered EXCEPT ![c] =
                                Append(@, Event(order_group(order_id), "order_status",
                                                order_id))]
            /\ last' = Response("order_connect", "accept")
    /\ UNCHANGED <<db, session, inbox, owed, channel_up, txn, menu, req>>

\* OrderConsumer.order_status_update: the consumer of channel c takes the
\* next message of its channel; event['order_id'] and the other fields are
\* read from the message itself, and a missing key is logged, nothing is sent
order_status_update(c) ==
    /\ c \in connected
    /\ "order_group_name" \in DOMAIN consumers[c]
    /\ inbox[c] # <<>>
    /\ Head(inbox[c]).type = "order_status_update"
    /\ inbox' = [inbox EXCEPT ![c] = Tail(@)]
    /\ delivered' = [delivered EXCEPT ![c] =
                        IF "order_id" \in DOMAIN Head(inbox[c])
                        THEN Append(@, Head(inbox[c]))
                        ELSE @]
    /\ UNCHANGED <<db, session, last, groups, connected, consumers, owed, channel_up,
                   txn, menu, req>>

\* the backend of the channel layer (Redis of CHANNEL_LAYERS) stops
\* answering: group_send raises from now on
channel_layer_fails ==
    /\ channel_up
    /\ channel_up' = FALSE
    /\ UNCHANGED <<db, session, last, groups, inbox, connected, delivered, consumers, owed,
                   txn, menu, req>>

\* the backend answers again
channel_layer_recovers ==
    /\ ~channel_up
    /\ channel_up' = TRUE
    /\ UNCHANGED <<db, session, last, groups, inbox, connected, delivered, consumers, owed,
                   txn, menu, req>>

(***************************************************************************)
(* Session handlers: QR code access, table selection, cart.                *)
(***************************************************************************)
\* accounts.qr_code_access: stores the restaurant of the scanned code in the session
qr_code_access(u, r) ==
    /\ session' = [session EXCEPT ![u].selected_restaurant_id = r]
    /\ last' = Response("qr_code_access", "ok")
    /\ UNCHANGED <<db, bus, txn, menu, req>>

\* TableInfo.get_active_orders / is_truly_available (restaurant/models.py of the
\* deployed application): the table is free and no order occupies it
is_truly_available(t) ==
    /\ is_available[t]
    /\ \A o \in 1 .. Len(orders) :
          orders[o].table_info = t => ~is_table_occupying(orders[o])

\* orders.select_table (POST with table_id)
select_table(u, t) ==
    LET restaurant == IF is_customer_care(u) /\ user_owner(u) # None
                      THEN user_owner(u)
                      ELSE session[u].selected_restaurant_id
    IN  IF restaurant = None
        THEN /\ last' = Response("select_table", "unauthorized")
             /\ UNCHANGED <<db, session, bus, txn, menu, req>>
        ELSE IF table_owner(t) # restaurant
        THEN /\ last' = Response("select_table", "invalid_table")
             /\ UNCHANGED <<db, session, bus, txn, menu, req>>
        ELSE IF is_truly_available(t)
        THEN /\ session' = [session EXCEPT ![u].selected_table = tbl_no(t)]
             /\ last' = Response("select_table", "ok")
             /\ UNCHANGED <<db, bus, txn, menu, req>>
        ELSE /\ last' = Response("select_table", "occupied")
             /\ UNCHANGED <<db, session, bus, txn, menu, req>>

CartIndex(cart, p) ==
    IF \E i \in 1 .. Len(cart) : cart[i].product = p
    THEN CHOOSE i \in 1 .. Len(cart) : cart[i].product = p
    ELSE 0

\* orders.add_to_cart
add_to_cart(u, p, quantity) ==
    LET cart == session[u].cart
        i == CartIndex(cart, p)
        reject(why) ==
            /\ last' = Response("add_to_cart", why)
            /\ UNCHANGED <<db, session, bus, txn, menu, req>>
    IN  IF session[u].selected_table = None THEN reject("no_table")
        ELSE IF available_in_stock[p] < quantity THEN reject("out_of_stock")
        ELSE IF i # 0 /\ cart[i].quantity + quantity > available_in_stock[p]
        THEN reject("cannot_add_more")
        ELSE /\ session' = [session EXCEPT ![u].cart =
                    IF i # 0
                    THEN [cart EXCEPT ![i] = [product |-> p,
                                              quantity |-> cart[i].quantity + quantity,
                                              price |-> get_current_price(p)]]
                    ELSE Append(cart, [product |-> p, quantity |-> quantity,
                                       price |-> get_current_price(p)])]
             /\ last' = Response("add_to_cart", "ok")
             /\ UNCHANGED <<db, bus, txn, menu, req>>


\* a faulty update_cart_quantity that does not compare the quantity with the
\* stock
update_cart_quantity_unchecked(u, p, quantity) ==
    LET cart == session[u].cart
        i == CartIndex(cart, p)
        reject(why) ==
            /\ last' = Response("update_cart_quantity", why)
            /\ UNCHANGED <<db, session, bus, txn, menu, req>>
    IN  IF quantity <= 0 THEN reject("invalid_quantity")
        ELSE IF i = 0 THEN reject("not_in_cart")
        ELSE /\ session' = [session EXCEPT ![u].cart[i] =
                    [product |-> p, quantity |-> quantity, price |-> get_current_price(p)]]
             /\ last' = Response("update_cart_quantity", "ok")
             /\ UNCHANGED <<db, bus, txn, menu, req>>

\* orders.update_cart_quantity
update_cart_quantity(u, p, quantity) ==
    LET cart == session[u].cart
        i == CartIndex(cart, p)
        reject(why) ==
            /\ last' = Response("update_cart_quantity", why)
            /\ UNCHANGED <<db, session, bus, txn, menu, req>>
    IN  IF quantity <= 0 THEN reject("invalid_quantity")
        ELSE IF quantity > available_in_stock[p] THEN reject("only_available")
        ELSE IF i = 0 THEN reject("not_in_cart")
        ELSE /\ session' = [session EXCEPT ![u].cart[i] =
                    [product |-> p, quantity |-> quantity, price |-> get_current_price(p)]]
             /\ last' = Response("update_cart_quantity", "ok")
             /\ UNCHANGED <<db, bus, txn, menu, req>>

(***************************************************************************)
(* Table occupancy (orders/models.py).                                     *)
(***************************************************************************)
\* the query of Order.release_table: the other active orders on the table
other_active_orders(ords, o) ==
    {i \in 1 .. Len(ords) :
        /\ i # o
        /\ ords[i].table_info = ords[o].table_info
        /\ ords[i].status \in ActiveStatuses
        /\ ords[i].payment_status \in {"unpaid", "partial"}}

\* a faulty release_table that skips the query for the other orders
release_table_unconditionally(ords, avail, o) ==
    [avail EXCEPT ![ords[o].table_info] = TRUE]

\* Order.release_table, on the rows ords: the availability flags afterwards
release_table(ords, avail, o) ==
    IF other_active_orders(ords, o) = {}
    THEN [avail EXCEPT ![ords[o].table_info] = TRUE]
    ELSE avail

\* Order.occupy_table
occupy_table(ord, avail) ==
    IF is_table_occupying(ord) THEN [avail EXCEPT ![ord.table_info] = FALSE] ELSE avail

(***************************************************************************)
(* Placement (orders.place_order).                                         *)
(***************************************************************************)
\* a faulty atomic block: the writes made before the exception are kept
atomic_without_rollback(before, after, raised) == after

\* transaction.atomic(): the block's writes are committed when it ends
\* normally and rolled back when it raises
atomic(before, after, raised) == IF raised THEN before ELSE after

\* the loop over the cart of place_order: stock check, OrderItem row, stock
\* decrement and total of each line, up to the first line that raises
RECURSIVE place_lines(_, _, _, _)
place_lines(lines, stock, items, total_amount) ==
    IF lines = <<>>
    THEN [raised |-> FALSE, stock |-> stock, items |-> items, total_amount |-> total_amount]
    ELSE LET item == Head(lines)
             p == item.product
         IN  IF stock[p] < item.quantity
             THEN [raised |-> TRUE, stock |-> stock, items |-> items,
                   total_amount |-> total_amount]
             ELSE place_lines(Tail(lines),
                              [stock EXCEPT ![p] = @ - item.quantity],
                              Append(items, [product |-> p, quantity |-> item.quantity,
                                             unit_price |-> price(p)]),
                              total_amount + item.price * item.quantity)

\* the restaurant place_order works for
current_restaurant(u) ==
    IF is_customer_care(u) /\ user_owner(u) # None
    THEN user_owner(u)
    ELSE session[u].selected_restaurant_id

\* orders.place_order, where uuid4 yields order_number for the new order
place_order_numbered(u, order_number) ==
    LET cart == session[u].cart
        restaurant == current_restaurant(u)
        found == {t \in Tables : tbl_no(t) = session[u].selected_table
                                   /\ table_owner(t) = restaurant}
        reject(why) ==
            /\ last' = Response("place_order", why)
            /\ UNCHANGED <<db, session, bus, txn, menu, req>>
    IN  IF session[u].selected_table = None THEN reject("no_table")
        ELSE IF cart = <<>> THEN reject("empty_cart")
        ELSE IF restaurant = None THEN reject("no_restaurant")
        ELSE IF found = {} THEN reject("table_not_found")
        ELSE
          LET table == CHOOSE t \in found : TRUE
              id == Len(orders) + 1
              created == [order_number |-> order_number, table_info |-> table,
                          ordered_by |-> u, confirmed_by |-> None,
                          status |-> "pending", payment_status |-> "unpaid",
                          total_amount |-> 0, reason_if_cancelled |-> "", items |-> <<>>]
              \* order_number is unique: Order.objects.create raises IntegrityError
              duplicate == \E i \in 1 .. Len(orders) :
                              orders[i].order_number = order_number
              lines == place_lines(cart, available_in_stock, <<>>, 0)
              saved == [created EXCEPT !.items = lines.items,
                                       !.total_amount = quantize(lines.total_amount)]
              before == [orders |-> orders, stock |-> available_in_stock,
                         tables |-> is_available]
              after == [orders |-> Append(orders, saved), stock |-> lines.stock,
                        tables |-> occupy_table(created, is_available)]
              \* group_send is called inside the atomic block: when it raises,
              \* the block is left by the exception
              raised == duplicate \/ lines.raised \/ ~channel_up
              end == atomic(before, after, raised)
          IN  /\ orders' = end.orders
              /\ available_in_stock' = end.stock
              /\ is_available' = end.tables
              /\ IF raised
                 THEN /\ session' = session
                      /\ last' = Response("place_order",
                                    IF ~duplicate /\ lines.raised
                                    THEN "insufficient_stock" ELSE "error")
                      /\ UNCHANGED <<bus, txn, menu, req, payments>>
                 ELSE /\ session' = [session EXCEPT ![u].cart = <<>>,
                                                    ![u].selected_table = None]
                      /\ last' = Published("place_order", "ok",
                            <<Event(restaurant_group(restaurant), "new_order", id),
                              Event(order_group(id), "order_status_update", id)>>)
                      /\ group_send(last'.events)
                      /\ UNCHANGED <<txn, menu, req, payments>>


\* orders.place_order when uuid4 yields a number that no order has
place_order(u) == place_order_numbered(u, Len(orders) + 1)

(***************************************************************************)
(* Status handlers of the orders application.                              *)
(***************************************************************************)
\* get_object_or_404(Order, id=order_id, table_info__owner=owner_filter), or
\* without the filter when owner_filter is None
found_for(o, owner_filter) ==
    /\ Exists(o)
    /\ owner_filter # None => table_owner(orders[o].table_info) = owner_filter

has_station(ord, st) == \E i \in 1 .. Len(ord.items) : station(ord.items[i].product) = st

\* the stock after "for item in order.order_items.all(): product.available_in_stock += item.quantity"
RECURSIVE restore_stock(_, _)
restore_stock(items, stock) ==
    IF items = <<>> THEN stock
    ELSE restore_stock(Tail(items),
                       [stock EXCEPT ![Head(items).product] = @ + Head(items).quantity])

\* orders.confirm_order
confirm_order(u, o) ==
    IF ~is_kitchen_staff(u)
    THEN /\ last' = Response("confirm_order", "access_denied")
         /\ UNCHANGED <<db, session, bus, txn, menu, req>>
    ELSE IF ~(Exists(o) /\ orders[o].status = "pending")
    THEN /\ last' = Response("confirm_order", "error")
         /\ UNCHANGED <<db, session, bus, txn, menu, req>>
    ELSE /\ orders' = [orders EXCEPT ![o].status = "confirmed", ![o].confirmed_by = u]
         /\ is_available' = [is_available EXCEPT ![orders[o].table_info] = FALSE]
         /\ last' = Response("confirm_order", "ok")
         /\ UNCHANGED <<available_in_stock, session, bus, txn, menu, req, payments>>

\* a faulty transition table: a pending order may go straight to preparing
valid_transitions_skipping(u, status) ==
    CASE status = "pending" -> {"confirmed", "preparing", "cancelled"}
      [] status = "confirmed" -> {"pending", "preparing", "cancelled"}
      [] status = "preparing" -> {"confirmed", "ready", "cancelled"}
      [] status = "ready" -> {"preparing", "served", "cancelled"}
      [] status = "served" -> {"ready", "cancelled"}
      [] OTHER -> {}

\* valid_transitions of orders.update_order_status, for the requesting user
valid_transitions(u, status) ==
    IF is_kitchen_staff(u) \/ is_bar_staff(u) \/ is_owner(u)
    THEN CASE status = "pending" -> {"confirmed", "cancelled"}
           [] status = "confirmed" -> {"pending", "preparing", "cancelled"}
           [] status = "preparing" -> {"confirmed", "ready", "cancelled"}
           [] status = "ready" -> {"preparing", "served", "cancelled"}
           [] status = "served" -> {"ready", "cancelled"}
           [] OTHER -> {}
    ELSE CASE status = "pending" -> {"confirmed", "cancelled"}
           [] status = "confirmed" -> {"preparing", "cancelled"}
           [] status = "preparing" -> {"ready", "cancelled"}
           [] status = "ready" -> {"served", "cancelled"}
           [] status = "served" -> {"cancelled"}
           [] OTHER -> {}

\* orders.update_order_status
update_order_status(u, o, new_status, cancel_reason) ==
    LET owner_filter == get_owner_filter(u)
        reject(why) ==
            /\ last' = Response("update_order_status", why)
            /\ UNCHANGED <<db, session, bus, txn, menu, req>>
    IN  IF ~(is_kitchen_staff(u) \/ is_bar_staff(u)) THEN reject("access_denied")
        ELSE IF owner_filter = "denied" THEN reject("error")
        ELSE IF new_status \notin {"confirmed", "preparing", "ready", "served", "cancelled"}
        THEN reject("invalid_status")
        ELSE IF ~found_for(o, owner_filter) THEN reject("error")
        ELSE IF is_bar_staff(u) /\ ~has_station(orders[o], "bar") THEN reject("no_bar_items")
        ELSE IF is_kitchen_staff(u) /\ ~has_station(orders[o], "kitchen")
        THEN reject("no_kitchen_items")
        ELSE IF new_status \notin valid_transitions(u, orders[o].status)
        THEN reject("invalid_transition")
        ELSE
          LET ord == orders[o]
              changed == [ord EXCEPT
                  !.reason_if_cancelled =
                      IF new_status = "cancelled" THEN cancel_reason ELSE @,
                  !.status = new_status,
                  !.confirmed_by =
                      IF new_status = "confirmed" /\ @ = None THEN u ELSE @]
              owner_id == user_owner(ord.ordered_by)
              to_order == StatusEvent(order_group(o), o)
              to_restaurant ==
                  StatusEvent(restaurant_group(owner_id), o)
          IN  /\ orders' = [orders EXCEPT ![o] = changed]
              /\ is_available' = IF new_status = "cancelled"
                                 THEN release_table(orders, is_available, o)
                                 ELSE is_available
              /\ UNCHANGED <<available_in_stock, session, txn, menu, req, payments>>
              \* order.ordered_by.owner.id raises for a customer without owner,
              \* after the save and the first group_send
              \* a group_send that raises ends the handler in its except branch,
              \* after the save
              /\ IF ~channel_up
                 THEN /\ last' = Response("update_order_status", "error")
                      /\ UNCHANGED bus
                 ELSE /\ IF owner_id = None
                         THEN last' = Published("update_order_status", "error",
                                                <<to_order>>)
                         ELSE last' = Published("update_order_status", "ok",
                                                <<to_order, to_restaurant>>)
                      /\ group_send(last'.events)

\* orders.cancel_order (POST)
cancel_order(u, o, reason) ==
    LET owner_filter == get_owner_filter(u)
        reject(why) ==
            /\ last' = Response("cancel_order", why)
            /\ UNCHANGED <<db, session, bus, txn, menu, req>>
    IN  IF ~is_kitchen_staff(u) THEN reject("access_denied")
        ELSE IF owner_filter = "denied" THEN reject("not_associated")
        ELSE IF ~found_for(o, owner_filter) THEN reject("not_found")
        ELSE IF orders[o].status \in {"served", "cancelled"} THEN reject("cannot_cancel")
        ELSE IF reason = "" THEN reject("reason_required")
        ELSE /\ available_in_stock' = restore_stock(orders[o].items, available_in_stock)
             /\ orders' = [orders EXCEPT ![o].status = "cancelled",
                                         ![o].reason_if_cancelled = reason]
             /\ is_available' = release_table(orders, is_available, o)
             /\ last' = Response("cancel_order", "ok")
             /\ UNCHANGED <<session, bus, txn, menu, req, payments>>

\* orders.customer_cancel_order (POST): is_json tells the AJAX request from the
\* form submission; reason is None when the request carries no reason
customer_cancel_order(u, o, is_json, reason) ==
    LET owner_filter == get_owner_filter(u)
        reject(why) ==
            /\ last' = Response("customer_cancel_order", why)
            /\ UNCHANGED <<db, session, bus, txn, menu, req>>
        mine == IF is_customer(u)
                THEN Exists(o) /\ orders[o].ordered_by = u
                ELSE found_for(o, owner_filter)
        given == IF reason = None THEN "Cancelled by customer" ELSE reason
        stored == IF is_json THEN given
                  ELSE IF given # "" THEN given ELSE "Cancelled by customer"
    IN  IF ~(is_customer(u) \/ is_customer_care(u)) THEN reject("access_denied")
        ELSE IF ~is_customer(u) /\ owner_filter = "denied" THEN reject("not_associated")
        ELSE IF ~mine THEN reject("not_found")
        ELSE IF orders[o].status # "pending" THEN reject("cannot_cancel")
        ELSE /\ available_in_stock' = restore_stock(orders[o].items, available_in_stock)
             /\ orders' = [orders EXCEPT ![o].status = "cancelled",
                                         ![o].reason_if_cancelled = stored]
             /\ is_available' = release_table(orders, is_available, o)
             /\ last' = Response("customer_cancel_order", "ok")
             /\ UNCHANGED <<session, bus, txn, menu, req, payments>>

\* orders.print_kot: the ticket is rendered, nothing is written
print_kot(u, o) ==
    /\ last' = Response("print_kot",
           IF ~Exists(o) THEN "not_found"
           ELSE IF ~(is_kitchen_staff(u) \/ is_customer_care(u) \/ is_cashier(u)
                       \/ is_owner(u) \/ is_administrator(u))
           THEN "access_denied"
           ELSE IF is_administrator(u) THEN "ok"
           ELSE IF get_owner_filter(u) = "denied" THEN "permission_error"
           ELSE IF get_owner_filter(u) # None
                     /\ table_owner(orders[o].table_info) # get_owner_filter(u)
           THEN "different_restaurant"
           ELSE "ok")
    /\ UNCHANGED <<db, session, bus, txn, menu, req>>

(***************************************************************************)
(* Status and table handlers of the cashier, admin_panel and system_admin  *)
(* applications.                                                           *)
(***************************************************************************)
\* cashier.cancel_order
cashier_cancel_order(u, o, reason) ==
    LET owner == get_owner_filter(u)
        reject(why) ==
            /\ last' = Response("cashier_cancel_order", why)
            /\ UNCHANGED <<db, session, bus, txn, menu, req>>
    IN  IF ~(is_cashier(u) \/ is_customer_care(u) \/ is_owner(u)) THEN reject("access_denied")
        ELSE IF owner = "denied" THEN reject("not_associated")
        ELSE IF ~(Exists(o) /\ table_owner(orders[o].table_info) = owner)
        THEN reject("not_found")
        ELSE IF \E i \in 1 .. Len(payments) :
                    payments[i].order = o /\ ~payments[i].is_voided
        THEN reject("has_payments")
        ELSE IF orders[o].status = "cancelled" THEN reject("already_cancelled")
        ELSE /\ orders' = [orders EXCEPT ![o].status = "cancelled",
                                         ![o].payment_status = "unpaid",
                                         ![o].reason_if_cancelled = reason]
             /\ last' = Response("cashier_cancel_order", "ok")
             /\ UNCHANGED <<available_in_stock, is_available, session, bus, txn, menu, req, payments>>

\* order.payments.filter(is_voided=False).aggregate(Sum('amount')), on the rows pays
RECURSIVE total_paid(_, _, _)
total_paid(pays, o, n) ==
    IF n = 0 THEN 0
    ELSE (IF pays[n].order = o /\ ~pays[n].is_voided THEN pays[n].amount ELSE 0)
         + total_paid(pays, o, n - 1)

\* the payment status that process_payment and void_payment store
payment_status_for(paid, total_amount) ==
    IF paid >= total_amount THEN "paid"
    ELSE IF paid > 0 THEN "partial"
    ELSE "unpaid"

\* cashier.process_payment (POST, no selected items)
process_payment(u, o, amount) ==
    LET owner == get_owner_filter(u)
        reject(why) ==
            /\ last' = Response("process_payment", why)
            /\ UNCHANGED <<db, session, bus, txn, menu, req>>
        paid == Append(payments, [order |-> o, amount |-> amount, is_voided |-> FALSE])
    IN  IF ~(is_cashier(u) \/ is_customer_care(u) \/ is_owner(u)) THEN reject("access_denied")
        ELSE IF owner = "denied" THEN reject("not_associated")
        ELSE IF ~(Exists(o) /\ table_owner(orders[o].table_info) = owner)
        THEN reject("not_found")
        ELSE IF amount <= 0 THEN reject("invalid_amount")
        ELSE /\ payments' = paid
             /\ orders' = [orders EXCEPT ![o].payment_status =
                     payment_status_for(total_paid(paid, o, Len(paid)),
                                        orders[o].total_amount)]
             /\ last' = Response("process_payment", "ok")
             /\ UNCHANGED <<available_in_stock, is_available, session, bus, txn, menu, req>>

\* cashier.void_payment
void_payment(u, i) ==
    LET owner == get_owner_filter(u)
        reject(why) ==
            /\ last' = Response("void_payment", why)
            /\ UNCHANGED <<db, session, bus, txn, menu, req>>
        o == payments[i].order
        voided == [payments EXCEPT ![i].is_voided = TRUE]
    IN  IF ~(is_cashier(u) \/ is_customer_care(u) \/ is_owner(u)) THEN reject("access_denied")
        ELSE IF owner = "denied" THEN reject("not_associated")
        ELSE IF ~(i \in 1 .. Len(payments) /\ table_owner(orders[o].table_info) = owner)
        THEN reject("not_found")
        ELSE IF payments[i].is_voided THEN reject("already_voided")
        ELSE /\ payments' = voided
             /\ orders' = [orders EXCEPT ![o].payment_status =
                     payment_status_for(total_paid(voided, o, Len(voided)),
                                        orders[o].total_amount)]
             /\ last' = Response("void_payment", "ok")
             /\ UNCHANGED <<available_in_stock, is_available, session, bus, txn, menu, req>>

\* admin_panel.update_order_status
admin_update_order_status(u, o, new_status) ==
    LET reject(why) ==
            /\ last' = Response("admin_update_order_status", why)
            /\ UNCHANGED <<db, session, bus, txn, menu, req>>
    IN  IF ~(is_administrator(u) \/ is_owner(u)) THEN reject("access_denied")
        ELSE IF ~Exists(o) THEN reject("error")
        ELSE IF new_status \notin STATUS_CHOICES THEN reject("invalid_status")
        ELSE /\ orders' = [orders EXCEPT
                    ![o].status = new_status,
                    ![o].confirmed_by =
                        IF new_status = "confirmed" /\ @ = None THEN u ELSE @]
             /\ last' = Response("admin_update_order_status", "ok")
             /\ UNCHANGED <<available_in_stock, is_available, session, bus, txn, menu, req, payments>>

\* admin_panel.edit_order (POST with a status, table and customer left as they are)
edit_order(u, o, status) ==
    LET owner_filter == get_owner_filter(u)
        reject(why) ==
            /\ last' = Response("edit_order", why)
            /\ UNCHANGED <<db, session, bus, txn, menu, req>>
    IN  IF ~(is_administrator(u) \/ is_owner(u)) THEN reject("access_denied")
        ELSE IF ~found_for(o, IF is_owner(u) THEN owner_filter ELSE None)
        THEN reject("not_found")
        ELSE /\ orders' = [orders EXCEPT
                    ![o].status = IF status \in STATUS_CHOICES THEN status ELSE @]
             /\ last' = Response("edit_order", "ok")
             /\ UNCHANGED <<available_in_stock, is_available, session, bus, txn, menu, req, payments>>

\* system_admin.update_order_status
system_admin_update_order_status(u, o, new_status, reason) ==
    LET reject(why) ==
            /\ last' = Response("system_admin_update_order_status", why)
            /\ UNCHANGED <<db, session, bus, txn, menu, req>>
    IN  IF ~is_administrator(u) THEN reject("access_denied")
        ELSE IF new_status \notin STATUS_CHOICES THEN reject("invalid_status")
        ELSE IF ~Exists(o) THEN reject("error")
        ELSE /\ orders' = [orders EXCEPT
                    ![o].status = new_status,
                    ![o].reason_if_cancelled =
                        IF new_status = "cancelled" /\ reason # "" THEN reason ELSE @,
                    ![o].confirmed_by = IF new_status = "confirmed" THEN u ELSE @]
             /\ last' = Response("system_admin_update_order_status", "ok")
             /\ UNCHANGED <<available_in_stock, is_available, session, bus, txn, menu, req, payments>>

\* admin_panel.toggle_table_status
toggle_table_status(u, t, action) ==
    LET reject(why) ==
            /\ last' = Response("toggle_table_status", why)
            /\ UNCHANGED <<db, session, bus, txn, menu, req>>
    IN  IF ~(is_administrator(u) \/ is_owner(u)) THEN reject("access_denied")
        ELSE IF action \notin {"occupy", "free"} THEN reject("invalid_action")
        ELSE /\ is_available' = [is_available EXCEPT ![t] = (action = "free")]
             /\ last' = Response("toggle_table_status", "ok")
             /\ UNCHANGED <<orders, available_in_stock, session, bus, txn, menu, req, payments>>

(***************************************************************************)
(* Methods of Order and OrderItem (orders/models.py) and the handlers that *)
(* change the menu.                                                        *)
(***************************************************************************)
\* OrderItem.get_subtotal
item_get_subtotal(item) == item.quantity * item.unit_price

\* sum(item.get_subtotal() for item in self.order_items.all())
RECURSIVE sum_get_subtotal(_)
sum_get_subtotal(items) ==
    IF items = <<>> THEN 0
    ELSE item_get_subtotal(Head(items)) + sum_get_subtotal(Tail(items))

\* a faulty calculate_total: the sum is added to the total the order has
calculate_total_accumulating(ord) ==
    [ord EXCEPT !.total_amount = @ + sum_get_subtotal(ord.items)]

\* Order.calculate_total: the instance after the call
calculate_total(ord) == [ord EXCEPT !.total_amount = sum_get_subtotal(ord.items)]

\* a call of order.calculate_total() on the order with id o
call_calculate_total(o) ==
    /\ Exists(o)
    /\ orders' = [orders EXCEPT ![o] = calculate_total(orders[o])]
    /\ last' = Response("calculate_total", "ok")
    /\ UNCHANGED <<available_in_stock, is_available, session, bus, txn, menu, req, payments>>

\* OrderItem.get_total_price: Product has get_current_price, so the line is
\* priced at the product's current promotional price
get_total_price(item) == item.quantity * get_current_price(item.product)

\* Order.get_subtotal
RECURSIVE get_subtotal(_)
get_subtotal(items) ==
    IF items = <<>> THEN 0
    ELSE get_total_price(Head(items)) + get_subtotal(Tail(items))

\* the tax rate of Order.get_tax_amount, in percent
OrderTaxPercent == 10

\* Order.get_tax_amount
get_tax_amount(ord) == (get_subtotal(ord.items) * OrderTaxPercent) \div 100

\* Order.get_total
get_total(ord) == get_subtotal(ord.items) + get_tax_amount(ord)

\* admin_panel.update_product (POST with a price; the other fields as they are)
update_product(u, p, new_price) ==
    IF ~(is_administrator(u) \/ is_owner(u))
    THEN /\ last' = Response("update_product", "access_denied")
         /\ UNCHANGED <<db, session, bus, txn, menu, req>>
    ELSE /\ product_price' = [product_price EXCEPT ![p] = new_price]
         /\ last' = Response("update_product", "ok")
         /\ UNCHANGED <<db, session, bus, txn, promotion_active, req>>

\* restaurant.toggle_promotion, of the promotion of restaurant A
toggle_promotion(u) ==
    IF ~is_owner(u)
    THEN /\ last' = Response("toggle_promotion", "access_denied")
         /\ UNCHANGED <<db, session, bus, txn, menu, req>>
    ELSE IF get_owner_filter(u) # "ownerA"
    THEN /\ last' = Response("toggle_promotion", "not_found")
         /\ UNCHANGED <<db, session, bus, txn, menu, req>>
    ELSE /\ promotion_active' = [p \in Products |->
                                    IF p \in Promoted THEN ~promotion_active[p]
                                    ELSE promotion_active[p]]
         /\ last' = Response("toggle_promotion", "ok")
         /\ UNCHANGED <<db, session, bus, txn, product_price, req>>

\* a call of get_owner_filter(user)
call_get_owner_filter(user) ==
    /\ last' = Response("get_owner_filter", resolve_owner_filter(user))
    /\ UNCHANGED <<db, session, bus, txn, menu, req>>

\* no place_order request in flight
Idle == [pc |-> "idle"]

Init ==
    /\ orders = <<>>
    /\ available_in_stock = [p \in Products |-> InitialStock(p)]
    /\ is_available = [t \in Tables |-> TRUE]
    /\ session = [u \in SessionUsers |->
                    [selected_restaurant_id |-> None, selected_table |-> None, cart |-> <<>>]]
    /\ last = Response("init", "ok")
    /\ groups = [g \in Groups |-> {}]
    /\ inbox = [c \in Conns |-> <<>>]
    /\ connected = {}
    /\ consumers = [c \in Conns |-> NoConsumer]
    /\ delivered = [c \in Conns |-> <<>>]
    /\ owed = [c \in Conns |-> <<>>]
    /\ txn = [u \in SessionUsers |-> Idle]
    /\ channel_up = TRUE
    /\ product_price = [p \in Products |-> InitialPrice(p)]
    /\ promotion_active = [p \in Products |-> p \in Promoted]
    /\ req = [r \in Requests |-> Idle]
    /\ payments = <<>>

(***************************************************************************)
(* The lifecycle specification: a customer who came through the QR code    *)
(* orders at restaurant A; the handlers of the orders application and the  *)
(* cashier work on the order.                                              *)
(***************************************************************************)
Reasons == {"", "changed mind"}
RequestedStatuses == ActiveStatuses \cup {"cancelled"}
\* the users that ask the orders application for a status: kitchen staff of
\* both restaurants and a cashier
StatusCallers == {"kitchenA", "kitchenB", "cashierA"}
\* the reasons sent with a requested status
ReasonsFor(st) == IF st = "cancelled" THEN Reasons ELSE {""}

\* the cap on the stock that a cancellation restores
StockBounded == \A p \in Products : available_in_stock'[p] <= MaxStock

Next ==
    \/ qr_code_access("cust1", "ownerA")
    \/ \E t \in {"tA1", "tB1"} : select_table("cust1", t)
    \/ \E q \in 1 .. MaxQty : add_to_cart("cust1", "pA", q)
    \/ Len(orders) < MaxOrders /\ place_order("cust1")
    \/ \E u \in StatusCallers, o \in 1 .. MaxOrders : confirm_order(u, o)
    \/ \E u \in StatusCallers, o \in 1 .. MaxOrders, st \in RequestedStatuses :
          \E r \in ReasonsFor(st) : update_order_status(u, o, st, r)
    \/ \E u \in StatusCallers, o \in 1 .. MaxOrders, r \in Reasons :
          cancel_order(u, o, r) /\ StockBounded
    \/ \E u \in {"cust1", "cust2", "kitchenA"}, o \in 1 .. MaxOrders, r \in Reasons :
          customer_cancel_order(u, o, TRUE, r) /\ StockBounded
    \/ \E u \in {"cashierA", "kitchenA"}, o \in 1 .. MaxOrders, r \in Reasons :
          cashier_cancel_order(u, o, r)

Spec == Init /\ [][Next]_vars

(***************************************************************************)
(* The back office specification: one customer orders at restaurant A; the *)
(* kitchen, the owners and the administrator write the order's status and  *)
(* the tables' flags.                                                      *)
(***************************************************************************)
NextBackOffice ==
    \/ qr_code_access("cust2", "ownerA")
    \/ select_table("cust2", "tA1")
    \/ add_to_cart("cust2", "pA", 1)
    \/ Len(orders) < MaxOrders /\ place_order("cust2")
    \/ \E u \in {"kitchenA", "kitchenB"}, o \in 1 .. MaxOrders : confirm_order(u, o)
    \/ \E u \in {"kitchenA", "kitchenB"}, o \in 1 .. MaxOrders, st \in RequestedStatuses :
          update_order_status(u, o, st, "changed mind")
    \/ \E u \in {"kitchenA", "kitchenB"}, o \in 1 .. MaxOrders :
          cancel_order(u, o, "changed mind") /\ StockBounded
    \/ \E u \in {"ownerA", "ownerB", "kitchenA"}, o \in 1 .. MaxOrders, st \in RequestedStatuses :
          admin_update_order_status(u, o, st)
    \/ \E u \in {"ownerA", "ownerB"}, o \in 1 .. MaxOrders, st \in RequestedStatuses :
          edit_order(u, o, st)
    \/ \E u \in {"admin", "ownerA"}, o \in 1 .. MaxOrders, st \in RequestedStatuses :
          system_admin_update_order_status(u, o, st, "")
    \/ \E u \in {"ownerA", "ownerB", "kitchenA"}, t \in {"tA1", "tB1"},
          a \in {"occupy", "free"} : toggle_table_status(u, t, a)

SpecBackOffice == Init /\ [][NextBackOffice]_vars

(***************************************************************************)
(* The placement specification: two customers of restaurant A fill their   *)
(* carts with both products and place orders.                              *)
(***************************************************************************)
NextPlace ==
    \/ \E u \in SessionUsers : qr_code_access(u, "ownerA")
    \/ \E u \in SessionUsers, t \in {"tA1", "tA2"} : select_table(u, t)
    \/ \E u \in SessionUsers, p \in Products, q \in 1 .. MaxQty : add_to_cart(u, p, q)
    \/ \E u \in SessionUsers : Len(orders) < MaxPlaced /\ place_order(u)

SpecPlace == Init /\ [][NextPlace]_vars

(***************************************************************************)
(* Concurrent placement: place_order as the sequence of its statements in  *)
(* a database transaction (PostgreSQL of production_settings: READ         *)
(* COMMITTED; a statement reads the committed rows; an UPDATE waits for    *)
(* the transaction that holds the row, then writes the values it was       *)
(* given).                                                                 *)
(***************************************************************************)
InFlight == {u \in SessionUsers : txn[u].pc # "idle"}

\* the rows (tables and products) that transactions other than u's have
\* written and not committed
LockedByOthers(u) ==
    UNION {txn[v].locked : v \in InFlight \ {u}}

\* place_order up to the table lookup: the checks, and the start of the
\* atomic block
place_order_begin(u) ==
    LET cart == session[u].cart
        restaurant == current_restaurant(u)
        found == {t \in Tables : tbl_no(t) = session[u].selected_table
                                   /\ table_owner(t) = restaurant}
        reject(why) ==
            /\ last' = Response("place_order", why)
            /\ UNCHANGED <<db, session, bus, txn, menu, req>>
    IN  /\ txn[u].pc = "idle"
        /\ IF session[u].selected_table = None THEN reject("no_table")
           ELSE IF cart = <<>> THEN reject("empty_cart")
           ELSE IF restaurant = None THEN reject("no_restaurant")
           ELSE IF found = {} THEN reject("table_not_found")
           ELSE /\ txn' = [txn EXCEPT ![u] =
                          [pc |-> "create", restaurant |-> restaurant,
                           table |-> CHOOSE t \in found : TRUE, cart |-> cart,
                           read |-> 0, items |-> <<>>, total_amount |-> 0,
                           stock |-> available_in_stock, locked |-> {}]]
                /\ UNCHANGED <<db, session, last, bus, menu, req>>

\* Order.objects.create: the INSERT, and occupy_table's UPDATE of the table row
place_order_create(u) ==
    /\ txn[u].pc = "create"
    /\ txn[u].table \notin LockedByOthers(u)
    /\ txn' = [txn EXCEPT ![u].pc = "check", ![u].locked = @ \cup {txn[u].table}]
    /\ UNCHANGED <<db, session, last, bus, menu, req>>

\* the next line of the cart: the product is read and its stock checked; the
\* exception rolls the transaction back
place_order_check(u) ==
    LET item == txn[u].cart[Len(txn[u].items) + 1]
        product == item.product
    IN  /\ txn[u].pc = "check"
        /\ IF available_in_stock[product] < item.quantity
           THEN /\ txn' = [txn EXCEPT ![u] = Idle]
                /\ last' = Response("place_order", "insufficient_stock")
                /\ UNCHANGED <<db, session, bus, menu, req>>
           ELSE /\ txn' = [txn EXCEPT ![u].pc = "save",
                                      ![u].read = available_in_stock[product]]
                /\ UNCHANGED <<db, session, last, bus, menu, req>>

\* the OrderItem row, and product.save() with the stock that was read minus
\* the quantity
place_order_save(u) ==
    LET item == txn[u].cart[Len(txn[u].items) + 1]
        product == item.product
        items == Append(txn[u].items, [product |-> product, quantity |-> item.quantity,
                                       unit_price |-> price(product)])
    IN  /\ txn[u].pc = "save"
        /\ product \notin LockedByOthers(u)
        /\ txn' = [txn EXCEPT
               ![u].pc = IF Len(items) = Len(txn[u].cart) THEN "commit" ELSE "check",
               ![u].items = items,
               ![u].stock = [@ EXCEPT ![product] = txn[u].read - item.quantity],
               ![u].total_amount = @ + item.price * item.quantity,
               ![u].locked = @ \cup {product}]
        /\ UNCHANGED <<db, session, last, bus, menu, req>>

\* the end of the block: total, events, session, and the commit of the
\* transaction's writes
place_order_commit(u) ==
    LET id == Len(orders) + 1
        saved == [order_number |-> id, table_info |-> txn[u].table,
                  ordered_by |-> u, confirmed_by |-> None,
                  status |-> "pending", payment_status |-> "unpaid",
                  total_amount |-> quantize(txn[u].total_amount),
                  reason_if_cancelled |-> "", items |-> txn[u].items]
    IN  /\ txn[u].pc = "commit"
        /\ IF ~channel_up
           THEN /\ last' = Response("place_order", "error")
                /\ UNCHANGED <<db, session, bus>>
           ELSE /\ orders' = Append(orders, saved)
                /\ available_in_stock' =
                       [p \in Products |-> IF p \in txn[u].locked THEN txn[u].stock[p]
                                           ELSE available_in_stock[p]]
                /\ is_available' = occupy_table(saved, is_available)
                /\ session' = [session EXCEPT ![u].cart = <<>>,
                                               ![u].selected_table = None]
                /\ last' = Published("place_order", "ok",
                              <<Event(restaurant_group(txn[u].restaurant), "new_order", id),
                                Event(order_group(id), "order_status_update", id)>>)
                /\ group_send(last'.events)
        /\ txn' = [txn EXCEPT ![u] = Idle]
        /\ UNCHANGED <<menu, req, payments>>

NextConc ==
    \/ \E u \in SessionUsers : qr_code_access(u, "ownerA")
    \/ \E u \in SessionUsers, t \in {"tA1", "tA2"} : select_table(u, t)
    \/ \E u \in SessionUsers : add_to_cart(u, "pB", 1)
    \/ \E u \in SessionUsers :
          Len(orders) + Cardinality(InFlight) < MaxPlaced /\ place_order_begin(u)
    \/ \E u \in SessionUsers : place_order_create(u)
    \/ \E u \in SessionUsers : place_order_check(u)
    \/ \E u \in SessionUsers : place_order_save(u)
    \/ \E u \in SessionUsers : place_order_commit(u)

SpecConc == Init /\ [][NextConc]_vars

(***************************************************************************)
(* The notification specification: a customer orders at restaurant A while *)
(* staff open and close websockets on the restaurant's topic.              *)
(***************************************************************************)
NextBus ==
    \/ qr_code_access("cust1", "ownerA")
    \/ select_table("cust1", "tA1")
    \/ add_to_cart("cust1", "pA", 1)
    \/ Len(orders) < MaxPlaced /\ place_order("cust1")
    \/ \E o \in 1 .. MaxPlaced : customer_cancel_order("cust1", o, TRUE, "changed mind")
    \/ \E c \in Conns, u \in {"kitchenA", "kitchenB", "barA"} : connect(c, u, "ownerA")
    \/ \E c \in Conns : disconnect(c)
    \/ \E c \in Conns : receive(c)

SpecBus == Init /\ [][NextBus]_vars

(***************************************************************************)
(* The specification of the order's methods and the menu: a customer       *)
(* orders at restaurant A, the owner changes prices and switches the       *)
(* promotion, and calculate_total is called on the orders.                 *)
(***************************************************************************)
\* the prices an update_product request sets
PriceChoices == {5 * Unit, 6 * Unit}

NextModels ==
    \/ qr_code_access("cust1", "ownerA")
    \/ select_table("cust1", "tA1")
    \/ \E p \in Products : add_to_cart("cust1", p, 1)
    \/ Len(orders) < MaxPlaced /\ place_order("cust1")
    \/ \E o \in 1 .. MaxPlaced : call_calculate_total(o)
    \/ \E u \in {"ownerA", "kitchenA"}, p \in Products, new_price \in PriceChoices :
          update_product(u, p, new_price)
    \/ \E u \in {"ownerA", "ownerB", "kitchenA"} : toggle_promotion(u)

SpecModels == Init /\ [][NextModels]_vars

(***************************************************************************)
(* The specification of the channel layer's outages: a customer of         *)
(* restaurant A orders, the kitchen moves the order on, and the backend of *)
(* the channel layer fails and recovers.                                   *)
(***************************************************************************)
NextOutage ==
    \/ qr_code_access("cust2", "ownerA")
    \/ select_table("cust2", "tA1")
    \/ \E q \in 1 .. MaxQty : add_to_cart("cust2", "pA", q)
    \/ Len(orders) < MaxPlaced /\ place_order("cust2")
    \/ \E o \in 1 .. MaxPlaced, st \in RequestedStatuses :
          update_order_status("kitchenA", o, st, "changed mind")
    \/ channel_layer_fails
    \/ channel_layer_recovers

SpecOutage == Init /\ [][NextOutage]_vars

(***************************************************************************)
(* The specification of the order numbers: a customer orders at two tables *)
(* of restaurant A, and uuid4 yields any number of a small range.          *)
(***************************************************************************)
\* the values of f"ORD-{uuid.uuid4().hex[:8].upper()}"
OrderNumbers == 1 .. MaxPlaced

NextNumbers ==
    \/ qr_code_access("cust1", "ownerA")
    \/ \E t \in {"tA1", "tA2"} : select_table("cust1", t)
    \/ \E p \in Products : add_to_cart("cust1", p, 1)
    \/ \E n \in OrderNumbers :
          Len(orders) < MaxPlaced /\ place_order_numbered("cust1", n)

SpecNumbers == Init /\ [][NextNumbers]_vars

(***************************************************************************)
(* The specification of the owner filter: get_owner_filter is called for   *)
(* users of every role, with and without an assigned owner, while a        *)
(* customer fills a cart.                                                  *)
(***************************************************************************)
Roles == {"administrator", "owner", "customer_care", "kitchen", "bar", "cashier",
          "customer"}

\* User rows: a role or none, an assigned owner or none
UserRows == [username : {"ownerA", "someone"}, role : Roles \cup {None},
             owner : Owners \cup {None}]

NextFilter ==
    \/ qr_code_access("cust1", "ownerA")
    \/ \E t \in {"tA1", "tA2"} : select_table("cust1", t)
    \/ \E p \in Products, q \in 1 .. MaxQty : add_to_cart("cust1", p, q)
    \/ \E user \in UserRows : call_get_owner_filter(user)

SpecFilter == Init /\ [][NextFilter]_vars

(***************************************************************************)
(* The specification of the confirmation: a customer of restaurant A       *)
(* orders, and users of every role ask the orders application to confirm   *)
(* the order.                                                              *)
(***************************************************************************)
ConfirmCallers == {"kitchenA", "barA", "ownerA", "admin", "cashierA", "careA", "cust2"}

NextConfirm ==
    \/ qr_code_access("cust2", "ownerA")
    \/ \E t \in {"tA1", "tA2"} : select_table("cust2", t)
    \/ \E p \in Products : add_to_cart("cust2", p, 1)
    \/ Len(orders) < MaxPlaced /\ place_order("cust2")
    \/ \E u \in ConfirmCallers, o \in 1 .. MaxPlaced : confirm_order(u, o)
    \/ \E u \in ConfirmCallers, o \in 1 .. MaxPlaced :
          update_order_status(u, o, "confirmed", "")

SpecConfirm == Init /\ [][NextConfirm]_vars

(***************************************************************************)
(* The specification of the lookups by order id: a customer of restaurant  *)
(* A orders, and kitchen staff of both restaurants name order ids, of      *)
(* orders that exist and of orders that do not.                            *)
(***************************************************************************)
LookupCallers == {"kitchenA", "kitchenB"}

NextLookup ==
    \/ qr_code_access("cust2", "ownerA")
    \/ select_table("cust2", "tA1")
    \/ add_to_cart("cust2", "pA", 1)
    \/ Len(orders) < MaxOrders /\ place_order("cust2")
    \/ \E u \in LookupCallers, o \in 1 .. MaxOrders + 1, st \in RequestedStatuses :
          update_order_status(u, o, st, "changed mind")
    \/ \E u \in LookupCallers, o \in 1 .. MaxOrders + 1 :
          cancel_order(u, o, "changed mind")
    \/ \E u \in LookupCallers, o \in 1 .. MaxOrders + 1 : print_kot(u, o)

SpecLookup == Init /\ [][NextLookup]_vars

(***************************************************************************)
(* Concurrent status requests: confirm_order and update_order_status as    *)
(* the sequence of their database statements.  Neither handler opens a     *)
(* transaction: every statement is committed as it is made, and            *)
(* order.save() writes every field of the instance that was read.          *)
(***************************************************************************)
\* update_order_status up to the change of the instance in memory: the
\* checks, the read of the order and of its items
update_order_status_begin(r, u, o, new_status, cancel_reason) ==
    LET owner_filter == get_owner_filter(u)
        reject(why) ==
            /\ last' = Response("update_order_status", why)
            /\ UNCHANGED <<db, session, bus, txn, menu, req>>
    IN  /\ req[r] = Idle
        /\ IF ~(is_kitchen_staff(u) \/ is_bar_staff(u)) THEN reject("access_denied")
           ELSE IF owner_filter = "denied" THEN reject("error")
           ELSE IF new_status \notin {"confirmed", "preparing", "ready", "served",
                                      "cancelled"}
           THEN reject("invalid_status")
           ELSE IF ~found_for(o, owner_filter) THEN reject("error")
           ELSE IF is_bar_staff(u) /\ ~has_station(orders[o], "bar")
           THEN reject("no_bar_items")
           ELSE IF is_kitchen_staff(u) /\ ~has_station(orders[o], "kitchen")
           THEN reject("no_kitchen_items")
           ELSE IF new_status \notin valid_transitions(u, orders[o].status)
           THEN reject("invalid_transition")
           ELSE /\ req' = [req EXCEPT ![r] =
                      [pc |-> IF new_status = "cancelled" THEN "status_query"
                              ELSE "status_save",
                       user |-> u, id |-> o, read |-> orders[o].status,
                       order |-> [orders[o] EXCEPT
                           !.reason_if_cancelled =
                               IF new_status = "cancelled" THEN cancel_reason ELSE @,
                           !.status = new_status,
                           !.confirmed_by =
                               IF new_status = "confirmed" /\ @ = None THEN u ELSE @]]]
                /\ UNCHANGED <<db, session, last, bus, txn, menu>>

\* order.release_table(): the query for the other active orders on the table
update_order_status_query(r) ==
    /\ req[r].pc = "status_query"
    /\ req' = [req EXCEPT ![r].pc =
                  IF other_active_orders(orders, req[r].id) = {}
                  THEN "status_release" ELSE "status_save"]
    /\ UNCHANGED <<db, session, last, bus, txn, menu>>

\* order.release_table(): self.table_info.save() with is_available = True
update_order_status_release(r) ==
    /\ req[r].pc = "status_release"
    /\ is_available' = [is_available EXCEPT ![req[r].order.table_info] = TRUE]
    /\ req' = [req EXCEPT ![r].pc = "status_save"]
    /\ UNCHANGED <<orders, available_in_stock, session, last, bus, txn, menu, payments>>

\* order.save(), the events and the response
update_order_status_save(r) ==
    LET o == req[r].id
        owner_id == user_owner(req[r].order.ordered_by)
        to_order == StatusEvent(order_group(o), o)
        to_restaurant == StatusEvent(restaurant_group(owner_id), o)
    IN  /\ req[r].pc = "status_save"
        /\ orders' = [orders EXCEPT ![o] = req[r].order]
        /\ IF ~channel_up
           THEN /\ last' = Response("update_order_status", "error")
                /\ UNCHANGED bus
           ELSE /\ IF owner_id = None
                   THEN last' = Published("update_order_status", "error", <<to_order>>)
                   ELSE last' = Published("update_order_status", "ok",
                                          <<to_order, to_restaurant>>)
                /\ group_send(last'.events)
        /\ req' = [req EXCEPT ![r] = Idle]
        /\ UNCHANGED <<available_in_stock, is_available, session, txn, menu, payments>>

\* confirm_order up to the change of the instance in memory: the role check
\* and the read of the pending order
confirm_order_begin(r, u, o) ==
    /\ req[r] = Idle
    /\ IF ~is_kitchen_staff(u)
       THEN /\ last' = Response("confirm_order", "access_denied")
            /\ UNCHANGED <<db, session, bus, txn, menu, req>>
       ELSE IF ~(Exists(o) /\ orders[o].status = "pending")
       THEN /\ last' = Response("confirm_order", "error")
            /\ UNCHANGED <<db, session, bus, txn, menu, req>>
       ELSE /\ req' = [req EXCEPT ![r] =
                  [pc |-> "confirm_save", user |-> u, id |-> o,
                   read |-> orders[o].status,
                   order |-> [orders[o] EXCEPT !.status = "confirmed",
                                               !.confirmed_by = u]]]
            /\ UNCHANGED <<db, session, last, bus, txn, menu>>

\* order.save() of confirm_order
confirm_order_save(r) ==
    /\ req[r].pc = "confirm_save"
    /\ orders' = [orders EXCEPT ![req[r].id] = req[r].order]
    /\ req' = [req EXCEPT ![r].pc = "confirm_occupy"]
    /\ UNCHANGED <<available_in_stock, is_available, session, last, bus, txn, menu, payments>>

\* table.save() of confirm_order with is_available = False, and the response
confirm_order_occupy(r) ==
    /\ req[r].pc = "confirm_occupy"
    /\ is_available' = [is_available EXCEPT ![req[r].order.table_info] = FALSE]
    /\ last' = Response("confirm_order", "ok")
    /\ req' = [req EXCEPT ![r] = Idle]
    /\ UNCHANGED <<orders, available_in_stock, session, bus, txn, menu, payments>>

\* orders.cancel_order (POST, JSON) up to its atomic block: the checks on the
\* order that was read
cancel_order_begin(r, u, o, reason) ==
    LET owner_filter == get_owner_filter(u)
        reject(why) ==
            /\ last' = Response("cancel_order", why)
            /\ UNCHANGED <<db, session, bus, txn, menu, req>>
    IN  /\ req[r] = Idle
        /\ IF ~is_kitchen_staff(u) THEN reject("access_denied")
           ELSE IF owner_filter = "denied" THEN reject("not_associated")
           ELSE IF ~found_for(o, owner_filter) THEN reject("not_found")
           ELSE IF orders[o].status \in {"served", "cancelled"} THEN reject("cannot_cancel")
           ELSE IF reason = "" THEN reject("reason_required")
           ELSE /\ req' = [req EXCEPT ![r] =
                      [pc |-> "cancel_commit", user |-> u, id |-> o,
                       read |-> orders[o].status,
                       order |-> [orders[o] EXCEPT !.status = "cancelled",
                                                   !.reason_if_cancelled = reason]]]
                /\ UNCHANGED <<db, session, last, bus, txn, menu>>

\* the atomic block of cancel_order: the products of the lines are read and
\* written back with the quantity added, the table is released and the
\* instance is saved
cancel_order_commit(r) ==
    /\ req[r].pc = "cancel_commit"
    /\ available_in_stock' = restore_stock(req[r].order.items, available_in_stock)
    /\ orders' = [orders EXCEPT ![req[r].id] = req[r].order]
    /\ is_available' = release_table(orders, is_available, req[r].id)
    /\ last' = Response("cancel_order", "ok")
    /\ req' = [req EXCEPT ![r] = Idle]
    /\ UNCHANGED <<session, bus, txn, menu, payments>>

\* orders.customer_cancel_order (POST, JSON) up to its atomic block
customer_cancel_order_begin(r, u, o, reason) ==
    LET owner_filter == get_owner_filter(u)
        reject(why) ==
            /\ last' = Response("customer_cancel_order", why)
            /\ UNCHANGED <<db, session, bus, txn, menu, req>>
        mine == IF is_customer(u)
                THEN Exists(o) /\ orders[o].ordered_by = u
                ELSE found_for(o, owner_filter)
    IN  /\ req[r] = Idle
        /\ IF ~(is_customer(u) \/ is_customer_care(u)) THEN reject("access_denied")
           ELSE IF ~is_customer(u) /\ owner_filter = "denied" THEN reject("not_associated")
           ELSE IF ~mine THEN reject("not_found")
           ELSE IF orders[o].status # "pending" THEN reject("cannot_cancel")
           ELSE /\ req' = [req EXCEPT ![r] =
                      [pc |-> "customer_cancel_commit", user |-> u, id |-> o,
                       read |-> orders[o].status,
                       order |-> [orders[o] EXCEPT
                           !.status = "cancelled",
                           !.reason_if_cancelled =
                               IF reason = None THEN "Cancelled by customer" ELSE reason]]]
                /\ UNCHANGED <<db, session, last, bus, txn, menu>>

\* the atomic block of customer_cancel_order
customer_cancel_order_commit(r) ==
    /\ req[r].pc = "customer_cancel_commit"
    /\ available_in_stock' = restore_stock(req[r].order.items, available_in_stock)
    /\ orders' = [orders EXCEPT ![req[r].id] = req[r].order]
    /\ is_available' = release_table(orders, is_available, req[r].id)
    /\ last' = Response("customer_cancel_order", "ok")
    /\ req' = [req EXCEPT ![r] = Idle]
    /\ UNCHANGED <<session, bus, txn, menu, payments>>

(***************************************************************************)
(* The specification of the release race: two customers have selected the  *)
(* same free table of restaurant A and place their orders while the        *)
(* kitchen cancels.                                                        *)
(***************************************************************************)
NextRelease ==
    \/ \E u \in SessionUsers : qr_code_access(u, "ownerA")
    \/ \E u \in SessionUsers : select_table(u, "tA1")
    \/ \E u \in SessionUsers : add_to_cart(u, "pA", 1)
    \/ \E u \in SessionUsers : Len(orders) < MaxPlaced /\ place_order(u)
    \/ \E o \in 1 .. MaxPlaced :
          update_order_status_begin("r1", "kitchenA", o, "cancelled", "changed mind")
    \/ update_order_status_query("r1")
    \/ update_order_status_release("r1")
    \/ update_order_status_save("r1")

SpecRelease == Init /\ [][NextRelease]_vars

(***************************************************************************)
(* The specification of the transition race: a customer orders at          *)
(* restaurant A, and two requests of the kitchen on the order run at the   *)
(* same time.                                                              *)
(***************************************************************************)
NextTransitions ==
    \/ qr_code_access("cust2", "ownerA")
    \/ select_table("cust2", "tA1")
    \/ add_to_cart("cust2", "pA", 1)
    \/ Len(orders) < MaxOrders /\ place_order("cust2")
    \/ \E r \in Requests, o \in 1 .. MaxOrders, st \in {"confirmed", "cancelled"} :
          update_order_status_begin(r, "kitchenA", o, st, "changed mind")
    \/ \E r \in Requests : update_order_status_query(r)
    \/ \E r \in Requests : update_order_status_release(r)
    \/ \E r \in Requests : update_order_status_save(r)
    \/ \E r \in Requests, o \in 1 .. MaxOrders : confirm_order_begin(r, "kitchenA", o)
    \/ \E r \in Requests : confirm_order_save(r)
    \/ \E r \in Requests : confirm_order_occupy(r)

SpecTransitions == Init /\ [][NextTransitions]_vars

(***************************************************************************)
(* The specification of concurrent placements with sufficient stock: two   *)
(* customers order one unit each of a product that has two in stock.       *)
(***************************************************************************)
NextStock ==
    \/ \E u \in SessionUsers : qr_code_access(u, "ownerA")
    \/ \E u \in SessionUsers, t \in {"tA1", "tA2"} : select_table(u, t)
    \/ \E u \in SessionUsers : add_to_cart(u, "pA", 1)
    \/ \E u \in SessionUsers :
          Len(orders) + Cardinality(InFlight) < MaxPlaced /\ place_order_begin(u)
    \/ \E u \in SessionUsers : place_order_create(u)
    \/ \E u \in SessionUsers : place_order_check(u)
    \/ \E u \in SessionUsers : place_order_save(u)
    \/ \E u \in SessionUsers : place_order_commit(u)

SpecStock == Init /\ [][NextStock]_vars

(***************************************************************************)
(* The specification of shared tables: two customers have selected the     *)
(* same table of restaurant A; their orders are paid by the cashier and    *)
(* cancelled by the kitchen and by the customers.                          *)
(***************************************************************************)
FullAmount == 6 * Unit      \* a payment that covers an order of one pA

NextShared ==
    \/ \E u \in SessionUsers : qr_code_access(u, "ownerA")
    \/ \E u \in SessionUsers : select_table(u, "tA1")
    \/ \E u \in SessionUsers : session[u].cart = <<>> /\ add_to_cart(u, "pA", 1)
    \/ \E u \in SessionUsers : Len(orders) < MaxPlaced /\ place_order(u)
    \/ \E o \in 1 .. MaxPlaced : cancel_order("kitchenA", o, "changed mind")
    \/ \E u \in SessionUsers, o \in 1 .. MaxPlaced :
          customer_cancel_order(u, o, TRUE, "changed mind")
    \/ \E o \in 1 .. MaxPlaced :
          update_order_status("kitchenA", o, "cancelled", "changed mind")
    \/ \E o \in 1 .. MaxPlaced :
          Len(payments) < MaxPayments /\ process_payment("cashierA", o, FullAmount)

SpecShared == Init /\ [][NextShared]_vars

(***************************************************************************)
(* The specification of payments: a customer orders at restaurant A; the   *)
(* cashier takes full and partial payments for the order and voids them.   *)
(***************************************************************************)
PaymentAmounts == {0, 2 * Unit, FullAmount}
PaymentCallers == {"cashierA", "kitchenA"}

NextPayment ==
    \/ qr_code_access("cust2", "ownerA")
    \/ select_table("cust2", "tA1")
    \/ session["cust2"].cart = <<>> /\ add_to_cart("cust2", "pA", 1)
    \/ Len(orders) < MaxOrders /\ place_order("cust2")
    \/ \E u \in PaymentCallers, o \in 1 .. MaxOrders, amount \in PaymentAmounts :
          Len(payments) < MaxPayments + 1 /\ process_payment(u, o, amount)
    \/ \E u \in PaymentCallers, i \in 1 .. MaxPayments + 1 : void_payment(u, i)

SpecPayment == Init /\ [][NextPayment]_vars

(***************************************************************************)
(* The specification of status events: a customer of restaurant A orders   *)
(* and follows the order on its websocket, the kitchen follows the         *)
(* restaurant's websocket and moves the order on.                          *)
(***************************************************************************)
NextEvents ==
    \/ qr_code_access("cust2", "ownerA")
    \/ select_table("cust2", "tA1")
    \/ session["cust2"].cart = <<>> /\ add_to_cart("cust2", "pA", 1)
    \/ Len(orders) < MaxOrders /\ place_order("cust2")
    \/ \E o \in 1 .. MaxOrders : update_order_status("kitchenA", o, "confirmed", "")
    \/ \E o \in 1 .. MaxOrders : order_connect("c1", "cust2", o)
    \/ connect("c2", "kitchenA", "ownerA")
    \/ \E c \in Conns : order_status_update(c)
    \/ \E c \in Conns : receive(c)
    \/ \E c \in Conns : receive_unhandled(c)

SpecEvents == Init /\ [][NextEvents]_vars

(***************************************************************************)
(* The specification of the topics: customers with and without an assigned *)
(* owner scan the QR code of either restaurant and order there; the        *)
(* kitchen of the restaurant confirms the order.                           *)
(***************************************************************************)
NextTopics ==
    \/ \E u \in SessionUsers, r \in Owners : qr_code_access(u, r)
    \/ \E u \in SessionUsers, t \in {"tA1", "tB1"} : select_table(u, t)
    \/ \E u \in SessionUsers : session[u].cart = <<>> /\ add_to_cart(u, "pA", 1)
    \/ \E u \in SessionUsers : Len(orders) < MaxOrders /\ place_order(u)
    \/ \E u \in {"kitchenA", "kitchenB"}, o \in 1 .. MaxOrders :
          update_order_status(u, o, "confirmed", "")

SpecTopics == Init /\ [][NextTopics]_vars

(***************************************************************************)
(* The specification of the restaurant websocket: every user, and a client *)
(* without a session, opens the websocket of either restaurant while a     *)
(* customer orders at restaurant A.                                        *)
(***************************************************************************)
NextConnect ==
    \/ qr_code_access("cust1", "ownerA")
    \/ select_table("cust1", "tA1")
    \/ session["cust1"].cart = <<>> /\ add_to_cart("cust1", "pA", 1)
    \/ Len(orders) < MaxOrders /\ place_order("cust1")
    \/ \E u \in Users \cup {None}, owner_id \in Owners : connect("c1", u, owner_id)
    \/ disconnect("c1")
    \/ receive("c1")

SpecConnect == Init /\ [][NextConnect]_vars

(***************************************************************************)
(* The specification of concurrent cancellations: a customer orders at     *)
(* restaurant A; the customer and the kitchen send cancel requests for the *)
(* order at the same time.                                                 *)
(***************************************************************************)
NextCancel ==
    \/ qr_code_access("cust2", "ownerA")
    \/ select_table("cust2", "tA1")
    \/ session["cust2"].cart = <<>> /\ add_to_cart("cust2", "pA", 1)
    \/ Len(orders) < MaxOrders /\ place_order("cust2")
    \/ \E r \in Requests, o \in 1 .. MaxOrders :
          cancel_order_begin(r, "kitchenA", o, "changed mind")
    \/ \E r \in Requests : cancel_order_commit(r)
    \/ \E r \in Requests, o \in 1 .. MaxOrders :
          customer_cancel_order_begin(r, "cust2", o, "changed mind")
    \/ \E r \in Requests : customer_cancel_order_commit(r)

SpecCancel == Init /\ [][NextCancel]_vars

(***************************************************************************)
(* The specification of the cart: a customer at restaurant A adds products *)
(* and changes quantities, also to zero and beyond the stock, and orders.  *)
(***************************************************************************)
CartQuantities == 0 .. MaxQty + 1

NextCart ==
    \/ qr_code_access("cust1", "ownerA")
    \/ select_table("cust1", "tA1")
    \/ \E p \in Products, q \in CartQuantities : add_to_cart("cust1", p, q)
    \/ \E p \in Products, q \in CartQuantities : update_cart_quantity("cust1", p, q)
    \/ Len(orders) < MaxOrders /\ place_order("cust1")

SpecCart == Init /\ [][NextCart]_vars

(***************************************************************************)
(* The claims.                                                             *)
(***************************************************************************)
\* an order that keeps its table: active status and not yet paid
ActiveOrder(o) ==
    orders[o].status \in ActiveStatuses /\ orders[o].payment_status # "paid"

\* C1: after every placement, status transition and cancellation, a table is
\* marked occupied (is_available = FALSE) if and only if at least one order on
\* it is active.  Stated as written; cashier.cancel_order breaks it.
C1_OccupiedIffActiveOrder ==
    \A t \in Tables :
        (~is_available[t]) <=>
            \E o \in 1 .. Len(orders) : orders[o].table_info = t /\ ActiveOrder(o)

\* the edges of the transition graph: one step forward, one step backward,
\* or a move to cancelled
Forward(a, b) ==
    <<a, b>> \in {<<"pending", "confirmed">>, <<"confirmed", "preparing">>,
                  <<"preparing", "ready">>, <<"ready", "served">>}
Edge(a, b) == Forward(a, b) \/ Forward(b, a) \/ (a \in ActiveStatuses /\ b = "cancelled")

\* C2: across all operations that write an order's status, each change of
\* status follows an edge of the transition graph.  Stated as written; the
\* back office handlers write any status.
C2_StatusFollowsGraph ==
    [][\A o \in 1 .. Len(orders) :
          orders'[o].status # orders[o].status
              => Edge(orders[o].status, orders'[o].status)]_vars

RECURSIVE QuantityIn(_, _)
QuantityIn(items, p) ==
    IF items = <<>> THEN 0
    ELSE (IF Head(items).product = p THEN Head(items).quantity ELSE 0)
             + QuantityIn(Tail(items), p)

RECURSIVE ActiveQuantity(_, _)
ActiveQuantity(n, p) ==
    IF n = 0 THEN 0
    ELSE (IF ActiveOrder(n) THEN QuantityIn(orders[n].items, p) ELSE 0)
             + ActiveQuantity(n - 1, p)

\* C3: after any sequence of placements and cancellations, the stock of every
\* product equals its initial stock minus the quantities of that product in
\* active orders.  Stated as written; two cancel paths do not restore stock.
C3_StockConserved ==
    \A p \in Products :
        available_in_stock[p] = InitialStock(p) - ActiveQuantity(Len(orders), p)

\* the requests of C4 on order o by user u
StatusRequest(u, o) ==
    \/ confirm_order(u, o)
    \/ \E st \in STATUS_CHOICES, r \in Reasons :
          update_order_status(u, o, st, r) \/ cancel_order(u, o, r)
    \/ \E st \in STATUS_CHOICES : admin_update_order_status(u, o, st)

\* C4: a principal that is not an administrator and whose tenant is A cannot
\* change the status of an order, or the flag of a table, of another tenant B:
\* the request leaves the order and the table unchanged.  Stated as written;
\* confirm_order and the admin_panel handlers look up without the tenant.
C4_TenantIsolation ==
    [][\A u \in Users :
          (~is_administrator(u) /\ get_owner_filter(u) \in Owners) =>
              /\ \A o \in 1 .. Len(orders) :
                    (table_owner(orders[o].table_info) # get_owner_filter(u)
                        /\ StatusRequest(u, o))
                    => (orders'[o] = orders[o] /\ is_available' = is_available)
              /\ \A t \in Tables :
                    (table_owner(t) # get_owner_filter(u)
                        /\ \E a \in {"occupy", "free"} : toggle_table_status(u, t, a))
                    => is_available'[t] = is_available[t]]_vars

\* C5: if at placement the quantity of a cart line exceeds the stock of its
\* product, place_order fails as a whole: no order is created, the stock of
\* every product and the tables' flags are as before, and the session cart
\* still holds its lines.
C5_PlacementFailsAtomically ==
    [][\A u \in SessionUsers :
          (/\ place_order(u)
           /\ \E i \in 1 .. Len(session[u].cart) :
                 session[u].cart[i].quantity
                     > available_in_stock[session[u].cart[i].product])
          => /\ orders' = orders
             /\ available_in_stock' = available_in_stock
             /\ is_available' = is_available
             /\ session'[u].cart = session[u].cart
             /\ last'.result # "ok"]_vars

\* C5 witness: a placement was refused for insufficient stock on the second
\* line of a cart whose first line could be served
C5_Witness ==
    /\ last.op = "place_order" /\ last.result = "insufficient_stock"
    /\ \E u \in SessionUsers :
          /\ \A v \in SessionUsers \ {u} : session[v].cart = <<>>
          /\ Len(session[u].cart) = 2
          /\ session[u].cart[1].quantity <= available_in_stock[session[u].cart[1].product]
          /\ session[u].cart[2].quantity > available_in_stock[session[u].cart[2].product]

RECURSIVE OrderedQuantity(_, _)
OrderedQuantity(n, p) ==
    IF n = 0 THEN 0
    ELSE QuantityIn(orders[n].items, p) + OrderedQuantity(n - 1, p)

\* C6: when two place_order requests run concurrently for the last unit of a
\* product, exactly one succeeds: the stock never becomes negative and the
\* orders never hold more units of a product than were in stock.  Stated as
\* written; two transactions both read the stock before either writes it.
C6_LastUnitSoldOnce ==
    \A p \in Products :
        /\ available_in_stock[p] >= 0
        /\ OrderedQuantity(Len(orders), p) <= InitialStock(p)

IsPrefix(s, t) == Len(s) <= Len(t) /\ \A i \in 1 .. Len(s) : s[i] = t[i]

\* C9: an event published on a restaurant topic while a subscriber is
\* disconnected is never delivered to it, also not on a later connection, and
\* no event is delivered twice: what a consumer has forwarded is, in order, a
\* prefix of what was published on its group while its websocket was open.
C9_NoStaleOrRepeatedDelivery ==
    \A c \in Conns : IsPrefix(delivered[c], owed[c])

\* C9 witness: a user's first websocket was closed before the first order
\* was placed; its second websocket, opened after that order, has forwarded
\* the second order's event and nothing else
C9_Witness ==
    /\ Len(orders) = 2
    /\ \E c \in Conns, d \in Conns :
          /\ c # d
          /\ consumers[c].user = consumers[d].user
          /\ consumers[c].restaurant_group_name = restaurant_group("ownerA")
          /\ c \notin connected /\ owed[c] = <<>> /\ delivered[c] = <<>>
          /\ d \in connected
          /\ delivered[d] = <<Event(restaurant_group("ownerA"), "new_order", 2)>>

\* the listed successors of a status for the kitchen and bar staff, the only
\* users update_order_status serves
ListedSuccessors(status) == {st \in STATUS_CHOICES : Edge(status, st)}

\* C7: in update_order_status a request whose new status is not a listed
\* successor of the order's current status is rejected with an error result
\* and leaves the order's status, confirmed_by and reason_if_cancelled, the
\* tables' availability and every product's stock unchanged.  Written as
\* "left unchanged, or the step is no such request" (the implication with its
\* consequent first).
C7_InvalidTransitionRejected ==
    [][last'.op = "update_order_status" =>
          \A o \in 1 .. Len(orders) :
             \/ /\ last'.result \notin {"ok"} /\ last'.events = <<>>
                /\ orders'[o].status = orders[o].status
                /\ orders'[o].confirmed_by = orders[o].confirmed_by
                /\ orders'[o].reason_if_cancelled = orders[o].reason_if_cancelled
                /\ is_available' = is_available
                /\ available_in_stock' = available_in_stock
             \/ ~\E u \in StatusCallers :
                   \E st \in RequestedStatuses \ ListedSuccessors(orders[o].status) :
                      \E r \in ReasonsFor(st) :
                         update_order_status(u, o, st, r)]_vars

\* C7 witness: the kitchen asked for a status that is no successor of a
\* cancelled order's status, and was told so
C7_Witness ==
    /\ last.op = "update_order_status" /\ last.result = "invalid_transition"
    /\ \E o \in 1 .. Len(orders) : orders[o].status = "cancelled"

\* C8: when a customer cancels their own pending order through
\* customer_cancel_order, an order_cancelled event is published on the order's
\* topic and on the restaurant's topic.  Stated as written; the handler
\* publishes nothing.
C8_CancellationPublished ==
    [][\A u \in SessionUsers, o \in 1 .. Len(orders), r \in Reasons :
          (/\ customer_cancel_order(u, o, TRUE, r)
           /\ orders[o].ordered_by = u
           /\ orders[o].status = "pending")
          => /\ orders'[o].status = "cancelled"
             /\ \E i \in 1 .. Len(last'.events) :
                   last'.events[i] = Event(order_group(o), "order_cancelled", o)
             /\ \E i \in 1 .. Len(last'.events) :
                   last'.events[i] =
                       Event(restaurant_group(table_owner(orders[o].table_info)),
                             "order_cancelled", o)]_vars

\* the sum over the items of an order of the current promotional price of the
\* product times the quantity
RECURSIVE PromotionalTotal(_)
PromotionalTotal(items) ==
    IF items = <<>> THEN 0
    ELSE get_current_price(Head(items).product) * Head(items).quantity
             + PromotionalTotal(Tail(items))

\* C10: the total_amount stored at placement is the sum of the
\* promotional prices times the quantities, multiplied by (1 + tax rate),
\* rounded to the currency precision (18.58 for 2 at 5.00 and 1 at 7.20).
\* Stated as written; place_order stores the sum without the tax.
C10_TotalIncludesTax ==
    \A o \in 1 .. Len(orders) :
        orders[o].total_amount
            = quantize((PromotionalTotal(orders[o].items) * (Unit + tax_rate)) \div Unit)

\* the sum of quantity times unit_price over the lines 1 .. n of an order
RECURSIVE LineSum(_, _)
LineSum(items, n) ==
    IF n = 0 THEN 0
    ELSE items[n].quantity * items[n].unit_price + LineSum(items, n - 1)

\* C11: calculate_total sets total_amount to the full sum of quantity times
\* unit_price over the order's lines, and a second call without a line change
\* yields the same total_amount as the first.
C11_CalculateTotalIdempotent ==
    [][\A o \in 1 .. Len(orders) :
          call_calculate_total(o)
          => /\ orders'[o].total_amount = LineSum(orders[o].items, Len(orders[o].items))
             /\ orders'[o].items = orders[o].items
             /\ calculate_total(orders'[o]).total_amount = orders'[o].total_amount]_vars

\* C11 witness: calculate_total was called on the one order, whose two lines
\* include the promoted product, and the total is now the sum of its lines
\* and no longer the amount stored at placement
C11_Witness ==
    /\ last.op = "calculate_total"
    /\ Len(orders) = 1
    /\ Len(orders[1].items) = 2
    /\ \E i \in 1 .. 2 : orders[1].items[i].product \in Promoted
    /\ orders[1].total_amount = LineSum(orders[1].items, 2)
    /\ orders[1].total_amount # quantize(PromotionalTotal(orders[1].items))

\* C14: after an order is placed, a change of a product's menu price or of a
\* promotion leaves unchanged the unit_price of every line and the total of
\* every order: the stored total_amount and the totals reported by
\* get_subtotal() and get_total().  Stated as written; get_total_price
\* prices the lines at the product's current price.
C14_TotalsUnaffectedByMenu ==
    [][last'.op \in {"update_product", "toggle_promotion"} =>
          \A o \in 1 .. Len(orders) :
             /\ orders'[o] = orders[o]
             /\ get_subtotal(orders[o].items)' = get_subtotal(orders[o].items)
             /\ get_total(orders[o])' = get_total(orders[o])]_vars

\* C12: a cancel request with an empty reason, through update_order_status,
\* orders.cancel_order or customer_cancel_order, is rejected with the status
\* unchanged, and every order in status cancelled has a non-empty
\* reason_if_cancelled.  Stated as written; update_order_status and
\* customer_cancel_order store the empty reason.
C12_CancelRequiresReason ==
    [][\A o \in 1 .. Len(orders) :
          /\ (\/ \E u \in StatusCallers :
                    update_order_status(u, o, "cancelled", "") \/ cancel_order(u, o, "")
               \/ \E c \in SessionUsers : customer_cancel_order(c, o, TRUE, ""))
             => orders'[o].status = orders[o].status
          /\ orders'[o].status = "cancelled" /\ orders[o].status # "cancelled"
             /\ last'.op \in {"update_order_status", "cancel_order", "customer_cancel_order"}
             => orders'[o].reason_if_cancelled # ""]_vars

\* the placement of user u passes every check of place_order
PlacementAccepted(u) ==
    /\ session[u].selected_table # None
    /\ session[u].cart # <<>>
    /\ current_restaurant(u) # None
    /\ \E t \in Tables : tbl_no(t) = session[u].selected_table
                          /\ table_owner(t) = current_restaurant(u)
    /\ ~place_lines(session[u].cart, available_in_stock, <<>>, 0).raised

\* C13: a group_send that raises never fails a command: place_order still
\* commits the order, the stock and the table and reports success, and
\* update_order_status reports the committed transition as successful.
\* Stated as written; both handlers end in their except branch.
C13_PublicationFailureHidden ==
    [][~channel_up =>
          /\ \A u \in SessionUsers :
                place_order(u) /\ PlacementAccepted(u)
                => /\ Len(orders') = Len(orders) + 1
                   /\ ~is_available'[orders'[Len(orders')].table_info]
                   /\ last'.result = "ok"
          /\ \A o \in 1 .. Len(orders) :
                last'.op = "update_order_status" /\ orders'[o].status # orders[o].status
                => last'.result = "ok"]_vars

\* C15: when the order_number generated in place_order is the number of an
\* existing order, the placement regenerates the number and succeeds with a
\* number that no other order has; the collision is not reported as a
\* failure.  Stated as written; the IntegrityError ends the placement.
C15_NumberCollisionRetried ==
    [][\A u \in SessionUsers, n \in OrderNumbers :
          (/\ place_order_numbered(u, n)
           /\ PlacementAccepted(u) /\ channel_up
           /\ \E i \in 1 .. Len(orders) : orders[i].order_number = n)
          => /\ Len(orders') = Len(orders) + 1
             /\ \A i \in 1 .. Len(orders) :
                   orders'[i].order_number # orders'[Len(orders')].order_number
             /\ last'.result = "ok"]_vars

\* the rules of the owner filter, each with the cases before it excluded
OwnerFilterRule(user) ==
    CASE user.role = "administrator" -> None
      [] user.role # "administrator" /\ user.role = "owner" -> user.username
      [] user.role \notin {"administrator", "owner"} /\ user.owner # None -> user.owner
      [] OTHER -> "denied"

\* C16: get_owner_filter(user) resolves an administrator to the unscoped
\* value, otherwise an owner to the owner itself, otherwise a user with an
\* assigned owner to that owner, otherwise it fails with PermissionDenied;
\* the result is the same in every state of the database and the sessions.
C16_OwnerFilterPriority ==
    [][\A user \in UserRows :
          call_get_owner_filter(user) => last'.result = OwnerFilterRule(user)]_vars

\* C16 witness: the filter was resolved to an owner itself, which some row
\* with the owner role and another owner assigned yields, with a cart filled
C16_Witness ==
    /\ last.op = "get_owner_filter" /\ last.result = "ownerA"
    /\ resolve_owner_filter([username |-> "ownerA", role |-> "owner", owner |-> "ownerB"])
           = last.result
    /\ session["cust1"].cart # <<>>

\* a request of user u for the transition of order o to confirmed
ConfirmRequest(u, o) ==
    confirm_order(u, o) \/ update_order_status(u, o, "confirmed", "")

\* C17: the transition pending to confirmed is accepted when requested by a
\* kitchen, bar, owner or administrator principal of the order's tenant, and
\* then records the principal in confirmed_by and leaves the stock unchanged;
\* it is refused for customer, cashier and customer-care principals.  Stated
\* as written; the handlers refuse owners and administrators.
C17_ConfirmByCapability ==
    [][\A u \in ConfirmCallers, o \in 1 .. Len(orders) :
          (orders[o].status = "pending" /\ ConfirmRequest(u, o))
          => IF /\ role(u) \in {"kitchen", "bar", "owner", "administrator"}
                /\ get_owner_filter(u) \in {None, table_owner(orders[o].table_info)}
             THEN /\ orders'[o].status = "confirmed"
                  /\ orders'[o].confirmed_by = u
                  /\ available_in_stock' = available_in_stock
             ELSE role(u) \in {"customer", "cashier", "customer_care"}
                  => orders'[o] = orders[o]]_vars

\* an order id that no order has
MissingId == Len(orders) + 1

\* C18: for a staff user that is not an administrator, a request that names
\* the id of an order of another tenant (update_order_status, cancel_order,
\* print_kot) is answered as the same request naming an id that no order
\* has, and changes no state.  Stated as written; print_kot says that the
\* order belongs to a different restaurant.
C18_ForeignOrderLooksMissing ==
    [][\A u \in LookupCallers, o \in 1 .. Len(orders) :
          table_owner(orders[o].table_info) # get_owner_filter(u)
          => /\ \A st \in RequestedStatuses :
                   update_order_status(u, o, st, "changed mind")
                   => update_order_status(u, MissingId, st, "changed mind")
             /\ cancel_order(u, o, "changed mind")
                   => cancel_order(u, MissingId, "changed mind")
             /\ print_kot(u, o) => print_kot(u, MissingId)]_vars

\* C19: when the cancellation of the only active order on a table runs
\* concurrently with the placement of a new order on the same table, no
\* interleaving ends, with both requests finished, in a state where the new
\* order is active and the table is marked available.  Stated as written;
\* release_table writes the flag after a query that the placement overtook.
C19_ReleaseNeverFreesOccupiedTable ==
    (\A r \in Requests : req[r] = Idle)
    => \A o \in 1 .. Len(orders) :
          ActiveOrder(o) => ~is_available[orders[o].table_info]

\* C20: when another request has committed a status change between a
\* request's read of the order and its write, the write is rejected and the
\* order keeps the status committed first.  Stated as written; order.save()
\* writes the instance that was read.
C20_StaleWriteRejected ==
    [][\A r \in Requests :
          (/\ confirm_order_save(r) \/ update_order_status_save(r)
           /\ orders[req[r].id].status # req[r].read)
          => orders'[req[r].id].status = orders[req[r].id].status]_vars

\* C21: for concurrent placements of the same product with sufficient stock,
\* once the requests have finished the stock equals the initial stock minus
\* the quantities of all committed placements: no stock update is lost.
\* Stated as written; both transactions read the stock before either writes.
C21_NoLostStockUpdate ==
    InFlight = {}
    => \A p \in Products :
          available_in_stock[p] = InitialStock(p) - OrderedQuantity(Len(orders), p)

\* the other orders that keep the table of order o: active and not paid
OthersKeeping(o) ==
    {i \in 1 .. Len(orders) :
        /\ i # o
        /\ orders[i].table_info = orders[o].table_info
        /\ ActiveOrder(i)}

\* C22: when a handler that calls release_table cancels an order, the table
\* stays occupied if another active and unpaid order is on it, and is marked
\* available if there is none.
C22_ReleaseRespectsOtherOrders ==
    [][\A o \in 1 .. Len(orders) :
          (/\ last'.op \in {"cancel_order", "customer_cancel_order", "update_order_status"}
           /\ orders[o].status # "cancelled"
           /\ orders'[o].status = "cancelled")
          => (is_available'[orders[o].table_info] <=> OthersKeeping(o) = {})]_vars

\* an order was cancelled while another unpaid active order keeps the table
C22_Witness ==
    /\ last.op \in {"cancel_order", "customer_cancel_order", "update_order_status"}
    /\ \E o \in 1 .. Len(orders) :
          /\ orders[o].status = "cancelled"
          /\ OthersKeeping(o) # {}
          /\ ~is_available[orders[o].table_info]

\* C28: after every payment and every voided payment, the flag of the
\* order's table agrees with is_table_occupying() of the table's orders: the
\* table is available again once no order on it is active and unpaid, and
\* occupied as long as there is one.  Stated as written; process_payment and
\* void_payment store the payment status and never touch the table.
C28_PaymentReleasesTable ==
    [][(last'.op \in {"process_payment", "void_payment"} /\ last'.result = "ok")
       => \A t \in Tables :
             is_available'[t] <=>
                ~\E o \in 1 .. Len(orders') :
                    orders'[o].table_info = t /\ is_table_occupying(orders'[o])]_vars

\* C23: immediately after a successful placement, also when a promotion is
\* active for an ordered product, the stored total_amount is the sum over the
\* order's lines of quantity times unit_price, so that calculate_total()
\* would not change it.  Stated as written; the lines keep the regular price
\* and the total is summed from the cart's promotional prices.
C23_PlacedTotalMatchesLines ==
    [][(last'.op = "place_order" /\ last'.result = "ok" /\ Len(orders') = Len(orders) + 1)
       => /\ orders'[Len(orders')].total_amount =
                LineSum(orders'[Len(orders')].items, Len(orders'[Len(orders')].items))
          /\ calculate_total(orders'[Len(orders')]).total_amount =
                orders'[Len(orders')].total_amount]_vars

\* C24: each order_status_update message of update_order_status that a
\* connected subscriber of the order's topic or of the restaurant's topic
\* takes from its channel is forwarded to its websocket, with the order_id
\* and the other fields in it.  Stated as written; the fields are nested
\* under 'message', and RestaurantConsumer has no handler for the type.
C24_StatusEventForwarded ==
    [][\A c \in Conns :
          (/\ c \in connected
           /\ inbox[c] # <<>>
           /\ Head(inbox[c]).type = "order_status_update"
           /\ inbox'[c] = Tail(inbox[c]))
          => /\ "order_id" \in DOMAIN Head(inbox[c])
             /\ delivered'[c] = Append(delivered[c], Head(inbox[c]))]_vars

\* the order an event is about
EventOrder(e) == IF "order_id" \in DOMAIN e THEN e.order_id ELSE e.message.order_id

\* the restaurant topic of the tenant that owns the table of order o
TenantTopic(o) == restaurant_group(table_owner(orders[o].table_info))

\* C25: every event of an order is published on the order's own topic or on
\* the restaurant topic of the tenant that owns the order's table, never on
\* the topic of another tenant or of no tenant, and an accepted status change
\* is published on that restaurant topic, as the new_order event was,
\* whoever placed the order.  Stated as written; update_order_status takes
\* the topic from the owner assigned to the customer.
C25_EventsOnTenantTopic ==
    [][/\ \A i \in 1 .. Len(last'.events) :
             last'.events[i].group \in
                {order_group(EventOrder(last'.events[i])),
                 restaurant_group(
                     table_owner(orders'[EventOrder(last'.events[i])].table_info))}
       /\ \A o \in 1 .. Len(orders) :
             (last'.op = "update_order_status" /\ orders'[o].status # orders[o].status)
             => \E i \in 1 .. Len(last'.events) : last'.events[i].group = TenantTopic(o)]_vars

\* C26: a session scoped to a tenant adds to its cart and orders only
\* products of that tenant: no cart line and no order line is for a product
\* of a tenant other than the session's restaurant and the owner of the
\* order's table.  Stated as written; add_to_cart and place_order look the
\* product up by its id alone.
C26_OnlyOwnProducts ==
    /\ \A u \in SessionUsers :
          \A i \in 1 .. Len(session[u].cart) :
             product_owner(session[u].cart[i].product) = current_restaurant(u)
    /\ \A o \in 1 .. Len(orders) :
          \A i \in 1 .. Len(orders[o].items) :
             product_owner(orders[o].items[i].product) = table_owner(orders[o].table_info)

\* the users the restaurant topic of tenant t is meant for
MayFollow(u, t) ==
    /\ u # None
    /\ \/ is_administrator(u)
       \/ is_owner(u) /\ u = t
       \/ /\ role(u) \in {"kitchen", "bar", "cashier", "customer_care"}
          /\ user_owner(u) = t

\* C27: a websocket connection to the restaurant topic of tenant t is
\* accepted and joined to the group if and only if the user is authenticated
\* and is the owner t, a kitchen, bar, cashier or customer-care staff member
\* of t, or an administrator; every other connection is closed and never
\* added to a group.  Stated as written; connect turns bar staff and
\* administrators away.
C27_ConnectIffStaffOfTenant ==
    [][\A c \in Conns, u \in Users \cup {None}, t \in Owners :
          connect(c, u, t)
          => IF MayFollow(u, t)
             THEN c \in connected' /\ c \in groups'[restaurant_group(t)]
             ELSE c \notin connected' /\ \A g \in Groups : c \notin groups'[g]]_vars

\* C29: two cancel requests for the same order, in any interleaving, restore
\* the stock of each of its lines once in total: the stock of a product never
\* rises above its value before the order was placed.  Stated as written;
\* both requests pass the status check before either writes, and both
\* restore the stock.
C29_StockRestoredOnce ==
    \A p \in Products : available_in_stock[p] <= InitialStock(p)

\* the quantity of product p in the cart of user u
InCart(u, p) ==
    IF CartIndex(session[u].cart, p) = 0 THEN 0
    ELSE session[u].cart[CartIndex(session[u].cart, p)].quantity

\* C30: add_to_cart and update_cart_quantity reject every mutation that
\* would make the quantity of a cart line (for add: the quantity in the cart
\* plus the added one) exceed the product's stock at that moment, a rejected
\* mutation leaves the cart unchanged, and no cart mutation changes the stock
\* of a product.
C30_CartBoundedByStock ==
    [][\A u \in SessionUsers, p \in Products, q \in CartQuantities :
          /\ add_to_cart(u, p, q)
             => /\ InCart(u, p) + q > available_in_stock[p]
                   => last'.result # "ok" /\ session' = session
                /\ last'.result # "ok" => session' = session
                /\ available_in_stock' = available_in_stock
          /\ update_cart_quantity(u, p, q)
             => /\ q > available_in_stock[p]
                   => last'.result # "ok" /\ session' = session
                /\ last'.result # "ok" => session' = session
                /\ available_in_stock' = available_in_stock]_vars

\* C30 witness: a quantity beyond the stock was asked for a product whose
\* line in the cart is within the stock, and was refused
C30_Witness ==
    /\ last.op = "update_cart_quantity" /\ last.result = "only_available"
    /\ \E p \in Products :
          InCart("cust1", p) > 0 /\ InCart("cust1", p) <= available_in_stock[p]

====
